---- MODULE Spec2Model ----
(***************************************************************************)
(* email2kg: the template-based extraction engine (TemplateService) and    *)
(* the extraction decision of ProcessingService.process_document.          *)
(*                                                                         *)
(* Text is a sequence of one-character strings.  Numbers read from text or *)
(* returned by the LLM are exact rationals [n, d]; scores and confidence   *)
(* ratios are rationals too, so that a/b is the quotient and not a rounded *)
(* stand-in.  The md5 digest of a layout record is modelled by the record  *)
(* itself (two signatures are equal iff the records are).                  *)
(***************************************************************************)
EXTENDS Integers, Sequences, FiniteSets, TLC

(***************************************************************************)
(* Exact rationals.                                                        *)
(***************************************************************************)
RECURSIVE Gcd(_, _)
Gcd(a, b) == IF b = 0 THEN a ELSE Gcd(b, a % b)

Rat(n, d) ==
    LET g == Gcd(n, d)
    IN  IF n = 0 THEN [n |-> 0, d |-> 1] ELSE [n |-> n \div g, d |-> d \div g]

RAdd(x, y) == Rat(x.n * y.d + y.n * x.d, x.d * y.d)
RMul(x, y) == Rat(x.n * y.n, x.d * y.d)
RDivInt(x, k) == Rat(x.n, x.d * k)
RLess(x, y) == x.n * y.d < y.n * x.d
RZero == Rat(0, 1)
ROne == Rat(1, 1)

RECURSIVE RSum(_)
RSum(s) == IF s = <<>> THEN RZero ELSE RAdd(Head(s), RSum(Tail(s)))

Max(S) == CHOOSE x \in S : \A y \in S : y <= x
Min(S) == CHOOSE x \in S : \A y \in S : x <= y

(***************************************************************************)
(* Characters and the Python string operations the services use.           *)
(***************************************************************************)
DigitChars == <<"0", "1", "2", "3", "4", "5", "6", "7", "8", "9">>
UpperChars == <<"A", "B", "C", "D", "E", "F", "G", "H", "I", "J", "K", "L", "M",
                "N", "O", "P", "Q", "R", "S", "T", "U", "V", "W", "X", "Y", "Z">>
LowerChars == <<"a", "b", "c", "d", "e", "f", "g", "h", "i", "j", "k", "l", "m",
                "n", "o", "p", "q", "r", "s", "t", "u", "v", "w", "x", "y", "z">>

Range(s) == {s[i] : i \in DOMAIN s}
IsDigit(c) == c \in Range(DigitChars)
IsUpper(c) == c \in Range(UpperChars)
IsSpace(c) == c \in {" ", "\n", "\t", "\r"}
DigitVal(c) == (CHOOSE i \in DOMAIN DigitChars : DigitChars[i] = c) - 1

\* str.lower() on one character, and on a string
lowerChar(c) ==
    IF IsUpper(c)
    THEN LowerChars[CHOOSE i \in DOMAIN UpperChars : UpperChars[i] = c]
    ELSE c
lower(s) == [i \in 1..Len(s) |-> lowerChar(s[i])]

\* s[from..to] with Python's convention for an empty slice
Slice(s, from, to) == IF from > to THEN <<>> ELSE SubSeq(s, from, to)

\* s[:k]
Prefix(s, k) == Slice(s, 1, IF Len(s) < k THEN Len(s) ELSE k)

\* the literal lit stands in s at index i (1-based), case-sensitively
LitAt(s, lit, i) ==
    /\ i >= 1
    /\ i + Len(lit) - 1 <= Len(s)
    /\ \A k \in 1..Len(lit) : s[i + k - 1] = lit[k]

\* `sub in s`
Contains(s, sub) == \E i \in 1..(Len(s) + 1) : LitAt(s, sub, i)

\* str.strip()
strip(s) ==
    IF \A i \in 1..Len(s) : IsSpace(s[i]) THEN <<>>
    ELSE LET a == Min({i \in 1..Len(s) : ~IsSpace(s[i])})
             b == Max({i \in 1..Len(s) : ~IsSpace(s[i])})
         IN  SubSeq(s, a, b)

\* str.splitlines(): the lines that newlines end, none for the empty text
RECURSIVE splitlines(_)
splitlines(s) ==
    IF s = <<>> THEN <<>>
    ELSE IF \A i \in 1..Len(s) : s[i] # "\n" THEN <<s>>
    ELSE LET i == Min({k \in 1..Len(s) : s[k] = "\n"})
         IN  <<Slice(s, 1, i - 1)>> \o splitlines(Slice(s, i + 1, Len(s)))

\* str.split('\n'): one more line than there are newlines
RECURSIVE split(_)
split(s) ==
    IF \A i \in 1..Len(s) : s[i] # "\n" THEN <<s>>
    ELSE LET i == Min({k \in 1..Len(s) : s[k] = "\n"})
         IN  <<Slice(s, 1, i - 1)>> \o split(Slice(s, i + 1, Len(s)))

\* the end (exclusive) of the longest run of characters satisfying a class,
\* starting at index i
RECURSIVE DigitRunEnd(_, _)
DigitRunEnd(s, i) ==
    IF i <= Len(s) /\ IsDigit(s[i]) THEN DigitRunEnd(s, i + 1) ELSE i
RECURSIVE SpaceRunEnd(_, _)
SpaceRunEnd(s, i) ==
    IF i <= Len(s) /\ IsSpace(s[i]) THEN SpaceRunEnd(s, i + 1) ELSE i
RECURSIVE ColonRunEnd(_, _)
ColonRunEnd(s, i) ==
    IF i <= Len(s) /\ s[i] = ":" THEN ColonRunEnd(s, i + 1) ELSE i
RECURSIVE AmountRunEnd(_, _)
AmountRunEnd(s, i) ==
    IF i <= Len(s) /\ (IsDigit(s[i]) \/ s[i] = ",") THEN AmountRunEnd(s, i + 1) ELSE i
RECURSIVE LineEnd(_, _)
LineEnd(s, i) ==
    IF i <= Len(s) /\ s[i] # "\n" THEN LineEnd(s, i + 1) ELSE i


(***************************************************************************)
(* Python values: a JSON number, a string or None.  A dict is the sequence *)
(* of its items in insertion order.                                        *)
(***************************************************************************)
NoneVal == [kind |-> "null", num |-> RZero, str |-> <<>>]
FloatVal(r) == [kind |-> "float", num |-> r, str |-> <<>>]
IntVal(k) == [kind |-> "int", num |-> Rat(k, 1), str |-> <<>>]
StrVal(s) == [kind |-> "str", num |-> RZero, str |-> s]
\* the empty list []
EmptyList == [kind |-> "list", num |-> RZero, str |-> <<>>]

\* a test that takes every value but None for true
IsGiven(v) == v # NoneVal

\* bool(v)
Truthy(v) ==
    CASE v.kind \in {"float", "int"} -> v.num.n # 0
      [] v.kind = "str" -> v.str # <<>>
      [] OTHER -> FALSE

\* d.get(key): None when the key is missing
DictGet(d, key) ==
    IF \E i \in DOMAIN d : d[i].name = key
    THEN d[CHOOSE i \in DOMAIN d : d[i].name = key].value
    ELSE NoneVal

RECURSIVE DigitsToNat(_)
DigitsToNat(s) ==
    IF s = <<>> THEN 0
    ELSE DigitsToNat(SubSeq(s, 1, Len(s) - 1)) * 10 + DigitVal(s[Len(s)])

RECURSIVE NatToDigits(_)
NatToDigits(k) ==
    IF k < 10 THEN <<DigitChars[k + 1]>>
    ELSE NatToDigits(k \div 10) \o <<DigitChars[(k % 10) + 1]>>

RECURSIVE Pow10(_)
Pow10(k) == IF k = 0 THEN 1 ELSE 10 * Pow10(k - 1)

RECURSIVE Without(_, _)
Without(s, c) ==
    IF s = <<>> THEN <<>>
    ELSE (IF Head(s) = c THEN <<>> ELSE <<Head(s)>>) \o Without(Tail(s), c)

\* float(value.replace(',', '')) on a string matched by [\d,]+\.?\d* : it
\* raises exactly when no digit is left
ParseFloat(s) ==
    LET t == Without(s, ",")
        dot == {i \in 1..Len(t) : t[i] = "."}
        ip == IF dot = {} THEN t ELSE Slice(t, 1, Min(dot) - 1)
        fp == IF dot = {} THEN <<>> ELSE Slice(t, Min(dot) + 1, Len(t))
    IN  IF ip \o fp = <<>> THEN [ok |-> FALSE, num |-> RZero]
        ELSE [ok |-> TRUE, num |-> Rat(DigitsToNat(ip \o fp), Pow10(Len(fp)))]

\* the number of decimals repr(float) shows: at least one
RECURSIVE Decimals(_, _)
Decimals(r, k) == IF (r.n * Pow10(k)) % r.d = 0 THEN k ELSE Decimals(r, k + 1)

\* str(value), as _generate_template_schema passes it on
str(val) ==
    CASE val.kind = "str" -> val.str
      [] val.kind = "null" -> <<"N", "o", "n", "e">>
      [] val.kind = "int" -> NatToDigits(val.num.n)
      [] val.kind = "list" -> <<"[", "]">>
      [] OTHER ->
            LET k == Decimals(val.num, 1)
                scaled == (val.num.n * Pow10(k)) \div val.num.d
                fr == NatToDigits(scaled % Pow10(k))
                pad == [i \in 1..(k - Len(fr)) |-> "0"]
            IN  NatToDigits(scaled \div Pow10(k)) \o <<".">> \o pad \o fr

(***************************************************************************)
(* TemplateService: layout signature and match score.                      *)
(***************************************************************************)
\* re.search(r'\d{1,2}[/-]\d{1,2}[/-]\d{2,4}') anchored at i: the end
\* (exclusive) of the match, 0 when there is none
\* given the end e of the digits that start at i: the index after \d{1,2}[/-],
\* 0 when that does not match at i (0 is passed on)
AfterDatePart(s, i, e) ==
    IF i # 0 /\ (e - i) \in {1, 2} /\ e <= Len(s) /\ s[e] \in {"/", "-"} THEN e + 1 ELSE 0
\* given the end e of the digits that start at i: the end of \d{2,4}
DateYearEnd(i, e) ==
    IF i = 0 \/ e - i < 2 THEN 0 ELSE i + (IF e - i > 4 THEN 4 ELSE e - i)
DigitsFrom(s, i) == IF i = 0 THEN 0 ELSE DigitRunEnd(s, i)
DateSecondPart(s, i) == AfterDatePart(s, i, DigitsFrom(s, i))
DateThirdPart(s, i) == DateYearEnd(i, DigitsFrom(s, i))
DateEndAt(s, i) == DateThirdPart(s, DateSecondPart(s, DateSecondPart(s, i)))

RECURSIVE SumLen(_)
SumLen(lines) == IF lines = <<>> THEN 0 ELSE Len(Head(lines)) + SumLen(Tail(lines))

_generate_layout_signature(text) ==
    LET lines == split(text)
    IN  [total_lines |-> Len(lines),
         avg_line_length |->
            IF Len(lines) # 0 THEN Rat(SumLen(lines), Len(lines)) ELSE RZero,
         has_tables |->
            \E i \in 1..Len(text) : \E j \in (i + 1)..Len(text) :
                /\ text[i] = "|" /\ text[j] = "|"
                /\ \A k \in i..j : text[k] # "\n",
         has_amounts |->
            \E i \in 1..(Len(text) - 1) :
                text[i] = "$" /\ (IsDigit(text[i + 1]) \/ text[i + 1] = ","),
         has_dates |-> \E i \in 1..Len(text) : DateEndAt(text, i) # 0]

\* a template without layout signature (the column is nullable)
NoSignature == [total_lines |-> 0, avg_line_length |-> Rat(0 - 1, 1),
                has_tables |-> FALSE, has_amounts |-> FALSE, has_dates |-> FALSE]
\* a template without vendor pattern (the column is nullable)
NoPattern == <<>>

_match_keywords(text, keywords) ==
    LET text_lower == lower(text)
        matches == Cardinality({k \in keywords : Contains(text_lower, lower(k))})
    IN  IF keywords # {} THEN Rat(matches, Cardinality(keywords)) ELSE RZero

_match_layout(text, layout_signature) ==
    IF _generate_layout_signature(text) = layout_signature THEN ROne ELSE Rat(1, 2)

\* line 84
mean_score(scores) ==
    IF scores # <<>> THEN RDivInt(RSum(scores), Len(scores)) ELSE RZero

_calculate_template_match_score(document_text, template) ==
    mean_score(
        (IF template.keywords # {}
         THEN <<RMul(_match_keywords(document_text, template.keywords), Rat(4, 10))>>
         ELSE <<>>)
     \o (IF template.vendor_pattern # NoPattern
         THEN <<RMul(IF Contains(lower(document_text), lower(template.vendor_pattern))
                     THEN ROne ELSE RZero, Rat(3, 10))>>
         ELSE <<>>)
     \o (IF template.layout_signature # NoSignature
         THEN <<RMul(_match_layout(document_text, template.layout_signature), Rat(3, 10))>>
         ELSE <<>>))

(***************************************************************************)
(* TemplateService: the field pattern matcher and the template extractor.  *)
(***************************************************************************)
\* re.escape(pattern) under re.IGNORECASE, anchored at i
PatternAt(text, pattern, i) ==
    /\ i >= 1
    /\ i + Len(pattern) - 1 <= Len(text)
    /\ \A k \in 1..Len(pattern) : lowerChar(text[i + k - 1]) = lowerChar(pattern[k])

NoMatch == [ok |-> FALSE, group |-> <<>>]
Group(text, from, to) == [ok |-> TRUE, group |-> Slice(text, from, to - 1)]

\* the end of the greedy \s*[:]*\s* from i
LabelTailEnd(text, i) == SpaceRunEnd(text, ColonRunEnd(text, SpaceRunEnd(text, i)))
SkipChar(text, i, c) == IF i <= Len(text) /\ text[i] = c THEN i + 1 ELSE i

\* ([\d,]+\.?\d*) from p
FloatGroupAt(text, p) ==
    IF AmountRunEnd(text, p) > p
    THEN Group(text, p, DigitRunEnd(text, SkipChar(text, AmountRunEnd(text, p), ".")))
    ELSE NoMatch

\* rf'{pattern}\s*[:]*\s*\$?\s*([\d,]+\.?\d*)' anchored at i: group 1
FloatMatchAt(text, pattern, i) ==
    IF PatternAt(text, pattern, i)
    THEN FloatGroupAt(text,
            SpaceRunEnd(text, SkipChar(text, LabelTailEnd(text, i + Len(pattern)), "$")))
    ELSE NoMatch

\* the group that starts at p, given the end e of the date there (0: none)
DateGroupAt(text, p, e) == IF e # 0 THEN Group(text, p, e) ELSE NoMatch
DateGroupFrom(text, p) == DateGroupAt(text, p, DateEndAt(text, p))

\* rf'{pattern}\s*[:]*\s*(\d{1,2}[/-]\d{1,2}[/-]\d{2,4})' anchored at i
DateMatchAt(text, pattern, i) ==
    IF PatternAt(text, pattern, i)
    THEN DateGroupFrom(text, LabelTailEnd(text, i + Len(pattern)))
    ELSE NoMatch

\* ([^\n]+) from the last of the indices it can start at
LineGroupAt(text, starts) ==
    IF starts # {} THEN Group(text, Max(starts), LineEnd(text, Max(starts))) ELSE NoMatch

\* rf'{pattern}\s*[:]*\s*([^\n]+)' anchored at i.  The greedy \s*[:]*\s* gives
\* characters back until the group can start on a character that is no
\* newline: the group starts at the last such index up to the greedy end.
StringMatchAt(text, pattern, i) ==
    IF PatternAt(text, pattern, i)
    THEN LineGroupAt(text,
            {q \in (i + Len(pattern))..LabelTailEnd(text, i + Len(pattern)) :
                q <= Len(text) /\ text[q] # "\n"})
    ELSE NoMatch

MatchAt(text, pattern, field_type, i) ==
    CASE field_type = "float" -> FloatMatchAt(text, pattern, i)
      [] field_type = "date" -> DateMatchAt(text, pattern, i)
      [] OTHER -> StringMatchAt(text, pattern, i)

\* the match at the least of the indices hits
LeftmostMatch(text, pattern, field_type, hits) ==
    IF hits = {} THEN NoMatch ELSE MatchAt(text, pattern, field_type, Min(hits))

\* re.search(regex, text, re.IGNORECASE): the leftmost match
Search(text, pattern, field_type) ==
    LeftmostMatch(text, pattern, field_type,
        {i \in 1..(Len(text) + 1) : MatchAt(text, pattern, field_type, i).ok})

NotFound == [value |-> NoneVal, confidence |-> RZero, found |-> FALSE]
Found(val, confidence) == [value |-> val, confidence |-> confidence, found |-> TRUE]

\* float(value.replace(',', '')), lines 183-187
FloatField(parsed) == IF parsed.ok THEN Found(FloatVal(parsed.num), Rat(9, 10)) ELSE NotFound

\* lines 182-191 on the stripped group
ConvertField(value, field_type) ==
    CASE field_type = "float" -> FloatField(ParseFloat(value))
      [] field_type = "date" -> Found(StrVal(value), Rat(9, 10))
      [] OTHER -> Found(StrVal(value), Rat(8, 10))

\* lines 177-191 on the result of re.search
MatchedField(match, field_type) ==
    IF match.ok THEN ConvertField(strip(match.group), field_type) ELSE NotFound

\* a matcher that gives up when the first label yields nothing
first_label_only(text, patterns, field_type) ==
    IF patterns = <<>> THEN NotFound
    ELSE MatchedField(Search(text, Head(patterns), field_type), field_type)

\* the (value, confidence) tuple; found tells (None, 0.0) from a value
RECURSIVE _extract_field(_, _, _)
FieldOrNext(field, text, patterns, field_type) ==
    IF field.found THEN field ELSE _extract_field(text, patterns, field_type)
_extract_field(text, patterns, field_type) ==
    IF patterns = <<>> THEN NotFound
    ELSE FieldOrNext(MatchedField(Search(text, Head(patterns), field_type), field_type),
                     text, Tail(patterns), field_type)

\* dict[key] = value: a present key keeps its place
DictSet(d, key, val) ==
    IF \E i \in DOMAIN d : d[i].name = key
    THEN [i \in DOMAIN d |-> IF d[i].name = key THEN [name |-> key, value |-> val] ELSE d[i]]
    ELSE Append(d, [name |-> key, value |-> val])

\* lines 146-148
WithField(extracted_data, field_name, field) ==
    IF field.found THEN DictSet(extracted_data, field_name, field.value) ELSE extracted_data

RECURSIVE extract_fields(_, _, _)
extract_fields(document_text, fields, extracted_data) ==
    IF fields = <<>> THEN extracted_data
    ELSE extract_fields(document_text, Tail(fields),
            WithField(extracted_data, Head(fields).name,
                _extract_field(document_text, Head(fields).patterns, Head(fields).type)))

\* A template_schema that is None or has no 'fields' key
NoSchema == [has_fields |-> FALSE, fields |-> <<>>]

\* The returned dict: the bare empty dict of line 130 has no 'data' key
extract_with_template(document_text, template) ==
    IF ~template.template_schema.has_fields
    THEN [has_data |-> FALSE, data |-> <<>>, template_id |-> 0]
    ELSE [has_data |-> TRUE,
          data |-> extract_fields(document_text, template.template_schema.fields, <<>>),
          template_id |-> template.id]

(***************************************************************************)
(* TemplateService: the learner.                                           *)
(***************************************************************************)
DocumentTypes == {"invoice", "receipt", "bank_statement", "purchase_order",
                  "sales_order", "delivery_note", "quote", "contract",
                  "tax_document", "other"}

type_keywords(document_type) ==
    CASE document_type = "invoice" ->
            {<<"i","n","v","o","i","c","e">>, <<"b","i","l","l">>, <<"d","u","e">>,
             <<"p","a","y","m","e","n","t">>, <<"s","u","b","t","o","t","a","l">>}
      [] document_type = "receipt" ->
            {<<"r","e","c","e","i","p","t">>, <<"p","a","i","d">>,
             <<"p","u","r","c","h","a","s","e","d">>,
             <<"t","r","a","n","s","a","c","t","i","o","n">>}
      [] document_type = "purchase_order" ->
            {<<"p","u","r","c","h","a","s","e"," ","o","r","d","e","r">>, <<"P","O">>,
             <<"q","u","a","n","t","i","t","y">>, <<"u","n","i","t"," ","p","r","i","c","e">>}
      [] document_type = "sales_order" ->
            {<<"s","a","l","e","s"," ","o","r","d","e","r">>, <<"S","O">>,
             <<"o","r","d","e","r"," ","d","a","t","e">>, <<"s","h","i","p"," ","t","o">>}
      [] document_type = "quote" ->
            {<<"q","u","o","t","e">>, <<"q","u","o","t","a","t","i","o","n">>,
             <<"e","s","t","i","m","a","t","e">>,
             <<"v","a","l","i","d"," ","u","n","t","i","l">>}
      [] OTHER -> {}

\* the keywords collected before list(set(keywords))[:10]
keyword_candidates(text, document_type) ==
    LET text_lower == lower(text)
        lines == split(text)
        first == Prefix(lines, 10)
    IN  {k \in type_keywords(document_type) : Contains(text_lower, k)}
        \cup {Prefix(strip(first[i]), 50) :
                i \in {j \in DOMAIN first : strip(first[j]) # <<>> /\ IsUpper(strip(first[j])[1])}}

\* list(set(keywords))[:10]: the order of a set is not fixed, so with more than
\* ten candidates any ten may be kept
_extract_keywords(text, document_type) ==
    LET c == keyword_candidates(text, document_type)
    IN  IF Cardinality(c) <= 10 THEN {c}
        ELSE {k \in SUBSET c : Cardinality(k) = 10}

IsLabelChar(c) == lowerChar(c) \in Range(LowerChars) \/ IsSpace(c) \/ c = "#"
RECURSIVE LabelRunEnd(_, _)
LabelRunEnd(s, i) ==
    IF i <= Len(s) /\ IsLabelChar(s[i]) THEN LabelRunEnd(s, i + 1) ELSE i

\* r'([A-Za-z\s#]+)[:]*\s*' + re.escape(value) anchored at i: the greedy group
\* gives characters back until the rest matches; then the colons and blanks do
LabelEnds(text, value, i) ==
    {j \in (i + 1)..LabelRunEnd(text, i) :
        \E q \in j..SpaceRunEnd(text, ColonRunEnd(text, j)) : PatternAt(text, value, q)}
\* the match whose group ends before j: the label, and where the value ends
LabelMatchEnding(text, value, i, j) ==
    [label |-> strip(Slice(text, i, j - 1)),
     end |-> Len(value) + Max({q \in j..SpaceRunEnd(text, ColonRunEnd(text, j)) :
                                    PatternAt(text, value, q)})]
LabelMatchAt(text, value, i) == LabelMatchEnding(text, value, i, Max(LabelEnds(text, value, i)))

\* lines 323-325
LabelFound(label) == IF Len(label) > 2 /\ Len(label) < 30 THEN {label} ELSE {}

\* re.finditer: the matches left to right, each search resuming where the
\* previous match ended
RECURSIVE label_matches(_, _, _)
LabelsFrom(text, value, i, m) ==
    LabelFound(m.label) \cup label_matches(text, value, IF m.end > i THEN m.end ELSE i + 1)
LabelsAt(text, value, hits) ==
    IF hits = {} THEN {}
    ELSE LabelsFrom(text, value, Min(hits), LabelMatchAt(text, value, Min(hits)))
label_matches(text, value, from) ==
    LabelsAt(text, value, {i \in from..Len(text) : LabelEnds(text, value, i) # {}})

\* the set behind list(set(patterns))
_find_value_patterns(text, value) == label_matches(text, value, 1)

\* the sequences that list(set(patterns))[:3] can be: any order, at most three
RECURSIVE Orderings(_)
Orderings(S) ==
    IF S = {} THEN {<<>>}
    ELSE UNION {{<<x>> \o t : t \in Orderings(S \ {x})} : x \in S}
top_patterns(S) ==
    {Prefix(o, 3) : o \in Orderings(S)}

field_type_of(field_name, value) ==
    IF value.kind \in {"int", "float"} THEN "float"
    ELSE IF field_name \in {"date", "transaction_date", "invoice_date"} THEN "date"
    ELSE "string"

\* the schemas _generate_template_schema can return (one per choice of the
\* order of each field's pattern set)
RECURSIVE schema_fields(_, _)
schema_fields(extracted_data, document_text) ==
    IF extracted_data = <<>> THEN {<<>>}
    ELSE LET item == Head(extracted_data)
         IN  {<<[name |-> item.name,
                 type |-> field_type_of(item.name, item.value),
                 required |-> item.name \in {"amount", "date", "vendor"},
                 patterns |-> p]>> \o rest :
                 p \in top_patterns(_find_value_patterns(document_text, str(item.value))),
                 rest \in schema_fields(Tail(extracted_data), document_text)}

_generate_template_schema(extracted_data, document_text) ==
    {[has_fields |-> TRUE, fields |-> f] : f \in schema_fields(extracted_data, document_text)}

(***************************************************************************)
(* The documents the model uploads.  A file is what file_path and          *)
(* PDFService.extract_text make of it: its extension and, for a PDF, the   *)
(* text PyPDF2 returns.                                                    *)
(***************************************************************************)
\* "From: Acme Corp\ninvoice total: 500.00"
TextA ==
    <<"F", "r", "o", "m", ":", " ", "A", "c", "m", "e", " ", "C", "o", "r",
      "p", "\n", "i", "n", "v", "o", "i", "c", "e", " ", "t", "o", "t", "a",
      "l", ":", " ", "5", "0", "0", ".", "0", "0">>
\* "From: Acme Corp\ninvoice total: 750.00": the layout and the keywords of TextA
TextB ==
    <<"F", "r", "o", "m", ":", " ", "A", "c", "m", "e", " ", "C", "o", "r",
      "p", "\n", "i", "n", "v", "o", "i", "c", "e", " ", "t", "o", "t", "a",
      "l", ":", " ", "7", "5", "0", ".", "0", "0">>
\* "From: Acme Corp\ninvoice total: unpaid": a vendor and no amount
TextC ==
    <<"F", "r", "o", "m", ":", " ", "A", "c", "m", "e", " ", "C", "o", "r",
      "p", "\n", "i", "n", "v", "o", "i", "c", "e", " ", "t", "o", "t", "a",
      "l", ":", " ", "u", "n", "p", "a", "i", "d">>
\* fewer than 20 characters
TextShort ==
    <<"A", "c", "m", "e", " ", "5", "0", "0", ".", "0", "0">>

AcmeCorp == <<"A", "c", "m", "e", " ", "C", "o", "r", "p">>
USD == <<"U", "S", "D">>

Files == {"a.pdf", "b.pdf", "c.pdf", "short.pdf", "scan.png", "notes.txt"}

\* os.path.splitext(document.file_path.lower())[1]
file_ext(file) ==
    CASE file \in {"a.pdf", "b.pdf", "c.pdf", "short.pdf"} -> ".pdf"
      [] file = "scan.png" -> ".png"
      [] OTHER -> ".txt"

\* PDFService.extract_text(document.file_path)
pdf_text(file) ==
    CASE file = "a.pdf" -> TextA
      [] file = "b.pdf" -> TextB
      [] file = "c.pdf" -> TextC
      [] OTHER -> TextShort

\* the amount the LLM reads from the file, when it reports one
AmountIn(file) == IF file = "b.pdf" THEN Rat(750, 1) ELSE Rat(500, 1)

ImageExts == {".jpg", ".jpeg", ".png", ".tiff", ".tif", ".webp", ".bmp"}

(***************************************************************************)
(* TemplateService on the document_templates table.  The table is the      *)
(* sequence of its rows, a row's id its index; delete_template leaves a    *)
(* row with present = FALSE, so that ids are not used twice.               *)
(***************************************************************************)
None == 0

Present(templates) == {i \in DOMAIN templates : templates[i].present}

\* a query that leaves the is_active filter out
unfiltered_orders(templates, document_type) ==
    LET c == {i \in Present(templates) : templates[i].document_type = document_type}
    IN  {o \in Orderings(c) :
            \A i \in 1..(Len(o) - 1) :
                ~RLess(templates[o[i]].confidence_score, templates[o[i + 1]].confidence_score)}

\* lines 32-35: the candidates in an order the query can return them in
\* (descending confidence_score; rows of equal score in any order)
candidate_orders(templates, document_type) ==
    LET c == {i \in Present(templates) :
                templates[i].document_type = document_type /\ templates[i].is_active}
    IN  {o \in Orderings(c) :
            \A i \in 1..(Len(o) - 1) :
                ~RLess(templates[o[i]].confidence_score, templates[o[i + 1]].confidence_score)}

\* a loop that lets a later candidate of equal score replace the best so far
RECURSIVE best_match_last(_, _, _)
best_match_last(order, score, best) ==
    IF order = <<>> THEN best
    ELSE best_match_last(Tail(order), score,
            IF ~RLess(score[Head(order)], best.best_score)
            THEN [best_template |-> Head(order), best_score |-> score[Head(order)]]
            ELSE best)

\* lines 41-48: the loop over the candidates
RECURSIVE best_match(_, _, _)
best_match(order, score, best) ==
    IF order = <<>> THEN best
    ELSE best_match(Tail(order), score,
            IF RLess(best.best_score, score[Head(order)])
            THEN [best_template |-> Head(order), best_score |-> score[Head(order)]]
            ELSE best)

\* a matcher that accepts at the threshold too
accept_from_threshold(best) ==
    IF ~RLess(best.best_score, Rat(6, 10)) THEN best.best_template ELSE None

\* lines 50-54: the template is returned only above the threshold
accept_match(best) ==
    IF RLess(Rat(6, 10), best.best_score) THEN best.best_template ELSE None

\* lines 41-48 for each order the query can return the candidates in, given
\* the score of every row
loop_outcomes(templates, document_type, score) ==
    {best_match(o, score, [best_template |-> None, best_score |-> RZero]) :
        o \in candidate_orders(templates, document_type)}

\* line 45 for every row
match_scores(templates, document_text) ==
    [i \in Present(templates) |->
        _calculate_template_match_score(document_text, templates[i])]

match_outcomes(templates, document_text, document_type) ==
    loop_outcomes(templates, document_type, match_scores(templates, document_text))

\* the templates find_matching_template can return; None is 0
find_matching_template(templates, document_text, document_type) ==
    {accept_match(b) : b \in match_outcomes(templates, document_text, document_type)}

_get_template_count(templates, document_type) ==
    Cardinality({i \in Present(templates) : templates[i].document_type = document_type})

\* a learner that numbers a template by its id, not by the count it read
new_template_by_id(id, number, document_id, document_type, keywords, template_schema, layout_signature) ==
    [id |-> id,
     name |-> [type |-> document_type, number |-> id],
     document_type |-> document_type,
     template_schema |-> template_schema,
     keywords |-> keywords,
     vendor_pattern |-> NoPattern,
     layout_signature |-> layout_signature,
     sample_documents |-> <<document_id>>,
     usage_count |-> 1,
     success_count |-> 1,
     confidence_score |-> ROne,
     is_active |-> TRUE,
     present |-> TRUE,
     created_from_document_id |-> document_id]

\* a learner that mints templates nobody has used yet
new_template_unused(id, number, document_id, document_type, keywords, template_schema, layout_signature) ==
    [id |-> id,
     name |-> [type |-> document_type, number |-> number],
     document_type |-> document_type,
     template_schema |-> template_schema,
     keywords |-> keywords,
     vendor_pattern |-> NoPattern,
     layout_signature |-> layout_signature,
     sample_documents |-> <<>>,
     usage_count |-> 0,
     success_count |-> 0,
     confidence_score |-> RZero,
     is_active |-> TRUE,
     present |-> TRUE,
     created_from_document_id |-> document_id]

\* lines 215 and 224-235: the row, with the columns' defaults (vendor_pattern
\* null, is_active true); the name is its type and number
new_template(id, number, document_id, document_type, keywords, template_schema, layout_signature) ==
    [id |-> id,
     name |-> [type |-> document_type, number |-> number],
     document_type |-> document_type,
     template_schema |-> template_schema,
     keywords |-> keywords,
     vendor_pattern |-> NoPattern,
     layout_signature |-> layout_signature,
     sample_documents |-> <<document_id>>,
     usage_count |-> 1,
     success_count |-> 1,
     confidence_score |-> ROne,
     is_active |-> TRUE,
     present |-> TRUE,
     created_from_document_id |-> document_id]

\* the rows create_template_from_extraction can add (one per order of the
\* keyword and pattern sets)
create_template_from_extraction(templates, document_id, document_type, extracted_data, document_text) ==
    {new_template(Len(templates) + 1, _get_template_count(templates, document_type) + 1,
                  document_id, document_type, kw, schema,
                  _generate_layout_signature(document_text)) :
        kw \in _extract_keywords(document_text, document_type),
        schema \in _generate_template_schema(extracted_data, document_text)}

\* an updater that rates the template before it counts the use
stats_updated_late(template, success) ==
    [template EXCEPT !.usage_count = @ + 1,
                     !.success_count = IF success THEN @ + 1 ELSE @,
                     !.confidence_score =
                        IF template.usage_count > 0
                        THEN Rat(template.success_count, template.usage_count) ELSE RZero]

\* lines 340-346 on the loaded row
stats_updated(template, success) ==
    LET usage == template.usage_count + 1
        succ == IF success THEN template.success_count + 1 ELSE template.success_count
    IN  [template EXCEPT !.usage_count = usage,
                         !.success_count = succ,
                         !.confidence_score = IF usage > 0 THEN Rat(succ, usage) ELSE RZero]

\* an updater that leaves the table as it is
stats_untouched(templates, template_id, success) == templates

update_template_stats(templates, template_id, success) ==
    IF template_id \in Present(templates)
    THEN [templates EXCEPT ![template_id] = stats_updated(templates[template_id], success)]
    ELSE templates

\* a logger that keeps one record per document, the latest
log_latest(logs, document_id, template_id, extraction_method, fields_extracted, success) ==
    LET kept == SelectSeq(logs, LAMBDA log : log.document_id # document_id)
    IN  Append(kept, [id |-> Len(kept) + 1,
                      document_id |-> document_id,
                      template_id |-> template_id,
                      extraction_method |-> extraction_method,
                      fields_extracted |-> fields_extracted,
                      confidence_scores |-> <<>>,
                      success |-> success,
                      manually_verified |-> FALSE])

\* lines 350-377
log_extraction(logs, document_id, template_id, extraction_method, fields_extracted, success) ==
    Append(logs, [id |-> Len(logs) + 1,
                  document_id |-> document_id,
                  template_id |-> template_id,
                  extraction_method |-> extraction_method,
                  fields_extracted |-> fields_extracted,
                  confidence_scores |-> <<>>,
                  success |-> success,
                  manually_verified |-> FALSE])

(***************************************************************************)
(* LLMService, as far as process_document sees it.                         *)
(***************************************************************************)
\* lines 93-101 of classify_document on the model's answer
classify_document(response) ==
    IF response \in DocumentTypes THEN response ELSE "other"

\* what the model may answer to the classification prompt
ClassifierResponses == {"invoice", "receipt", "other", "memo"}

Item(k, val) == [name |-> k, value |-> val]

\* lines 184-193: the empty structure returned when the answer is no JSON
empty_structure(doc_type) ==
    <<Item("amount", NoneVal), Item("currency", StrVal(USD)), Item("date", NoneVal),
      Item("merchant", NoneVal), Item("vendor", NoneVal),
      Item("type", StrVal(<<doc_type>>)), Item("invoice_number", NoneVal),
      Item("items", EmptyList)>>

\* what extract_structured_data may return for a file: the fields the prompt
\* asks for, found; an amount of 0; the empty structure; an empty object
llm_dicts(file, doc_type) ==
    {<<Item("amount", FloatVal(AmountIn(file))), Item("vendor", StrVal(AcmeCorp))>>,
     <<Item("amount", IntVal(0)), Item("vendor", StrVal(AcmeCorp))>>,
     empty_structure(doc_type),
     <<>>}

\* normalize_party_name
IsWordChar(c) == lowerChar(c) \in Range(LowerChars) \/ IsDigit(c) \/ c = "_"
RECURSIVE join_words(_, _, _)
join_words(s, out, gap) ==
    IF s = <<>> THEN out
    ELSE IF IsSpace(Head(s)) THEN join_words(Tail(s), out, TRUE)
    ELSE join_words(Tail(s),
            out \o (IF gap /\ out # <<>> THEN <<" ">> ELSE <<>>) \o <<Head(s)>>, FALSE)
RECURSIVE keep_word_space(_)
keep_word_space(s) ==
    IF s = <<>> THEN <<>>
    ELSE (IF IsWordChar(Head(s)) \/ IsSpace(Head(s)) THEN <<Head(s)>> ELSE <<>>)
         \o keep_word_space(Tail(s))
normalize_party_name(name) ==
    IF name = <<>> THEN <<>> ELSE join_words(keep_word_space(lower(name)), <<>>, FALSE)

\* _find_or_create_party: the parties table afterwards, and the party's id
_find_or_create_party(table, name) ==
    LET normalized_name == normalize_party_name(name)
        found == {i \in DOMAIN table : table[i].normalized_name = normalized_name}
    IN  IF found # {} THEN [parties |-> table, id |-> Min(found)]
        ELSE [parties |-> Append(table, [name |-> name, normalized_name |-> normalized_name,
                                         party_type |-> "vendor"]),
              id |-> Len(table) + 1]

(***************************************************************************)
(* State.                                                                  *)
(*   documents, document_templates, extraction_logs, transactions, parties *)
(*       the committed rows of the tables;                                 *)
(*   run[w]   worker w's call of process_document: where it stands (pc),   *)
(*       its local variables, what its session has not committed (dirty),  *)
(*       and what it has called so far;                                    *)
(*   runs_started   the calls of process_document begun so far;            *)
(*   session[w]   worker w's call of update_template_stats, when it is     *)
(*       called on its own: the row its session has loaded;                *)
(*   calls[t]   the calls of update_template_stats on template t that have *)
(*       returned;                                                         *)
(*   probe   a function of the service called on its own: its arguments    *)
(*       and, once it has returned, its result;                            *)
(*   task   the Celery task process_uploaded_document, when the model      *)
(*       follows one: where it stands, the retries it has had              *)
(*       (self.request.retries), the worker that runs it and what it has   *)
(*       returned.                                                         *)
(***************************************************************************)
VARIABLES documents, document_templates, extraction_logs, transactions, parties,
          run, runs_started, session, calls, probe, task

vars == <<documents, document_templates, extraction_logs, transactions, parties,
          run, runs_started, session, calls, probe, task>>

\* no task process_uploaded_document is queued
NoTask == [pc |-> "none", document_id |-> 0, retries |-> 0, worker |-> "", status |-> ""]

\* no function of the service is being called on its own
NoProbe == [op |-> "none"]

Workers == {"w1", "w2"}
DocIds == {1, 2}
\* an id no document has
MissingDoc == Max(DocIds) + 1

\* the calls of process_document the model follows
MaxRuns == 2

\* the templates and the calls of update_template_stats the model follows
\* when the service is called on its own
MaxTemplates == 2
MaxCalls == 4
TemplateIds == 1..MaxTemplates

IdleSession == [pc |-> "idle", template_id |-> None, found |-> FALSE, usage_count |-> 0,
                success_count |-> 0, confidence_score |-> RZero]

IdleRun ==
    [pc |-> "idle", document_id |-> 0, extracted_text |-> <<>>, doc_type |-> "",
     template |-> None, structured_data |-> <<>>, extraction_method |-> "llm",
     template_id |-> None, dirty |-> FALSE, exc |-> "", ret |-> "",
     scores |-> <<>>, llm_calls |-> 0, learner_calls |-> 0, stats_calls |-> 0,
     created |-> None, call |-> 0, logs_added |-> 0]

\* an uploaded document: its row, and with it whether the file at file_path
\* is on the disk
NewDocument(file) ==
    [file |-> file, processing_status |-> "pending", document_type |-> "",
     extracted_text |-> <<>>, has_extracted_data |-> FALSE, extracted_data |-> <<>>,
     on_disk |-> TRUE]

\* lines 197-199 and 212-215: os.remove(document.file_path)
Removed(doc) == [doc EXCEPT !.on_disk = FALSE]

\* PDFService.extract_text(document.file_path): PyPDF2 cannot open a file that
\* is gone, has_images then answers True, and the text is ""
text_of(doc) == IF doc.on_disk THEN pdf_text(doc.file) ELSE <<>>

Init ==
    /\ \E file \in Files \ {"a.pdf", "c.pdf"} :
            documents = [d \in DocIds |-> NewDocument(IF d = 1 THEN "a.pdf" ELSE file)]
    /\ document_templates = <<>>
    /\ extraction_logs = <<>>
    /\ transactions = <<>>
    /\ parties = <<>>
    /\ run = [w \in Workers |-> IdleRun]
    /\ runs_started = 0
    /\ session = [w \in Workers |-> IdleSession]
    /\ calls = [t \in TemplateIds |-> 0]
    /\ probe = NoProbe
    /\ task = NoTask

Running(w) == run[w].pc \notin {"idle", "done"}

\* the session's commit, as far as the document row goes: extracted_text and
\* document_type, set at lines 80 and 99, are written with the first commit
\* that follows
Flushed(doc, r) ==
    IF r.dirty
    THEN [doc EXCEPT !.extracted_text = r.extracted_text, !.document_type = r.doc_type]
    ELSE doc

\* a call that returns True whenever it returns
ReturnedTrue(r, value) ==
    [r EXCEPT !.pc = "done", !.ret = IF value = "raised" THEN value ELSE "true",
              !.dirty = FALSE, !.exc = "",
              !.extracted_text = <<>>, !.doc_type = "", !.structured_data = <<>>,
              !.template = None, !.scores = <<>>]

\* the call returns: its local variables are gone; what it has called, and
\* with which method, stays on record
Returned(r, value) ==
    [r EXCEPT !.pc = "done", !.ret = value, !.dirty = FALSE, !.exc = "",
              !.extracted_text = <<>>, !.doc_type = "", !.structured_data = <<>>,
              !.template = None, !.scores = <<>>]

TablesUnchanged ==
    UNCHANGED <<document_templates, extraction_logs, transactions, parties>>

(***************************************************************************)
(* ProcessingService.process_document, one action per stretch between two  *)
(* calls that leave the process (the database, the LLM).                   *)
(***************************************************************************)
\* lines 42-49, for a worker that is free and a document no other worker is
\* processing; call numbers the calls of process_document in their order
Called(w, d) ==
    /\ ~Running(w)
    /\ \A o \in Workers : Running(o) => run[o].document_id # d
    /\ runs_started' = runs_started + 1
    /\ UNCHANGED <<probe, session, calls>>
    /\ TablesUnchanged
    /\ IF d \notin DOMAIN documents
       THEN /\ run' = [run EXCEPT ![w] = Returned([IdleRun EXCEPT !.document_id = d,
                                                                  !.call = runs_started'], "false")]
            /\ UNCHANGED documents
       ELSE /\ run' = [run EXCEPT ![w] = [IdleRun EXCEPT !.pc = "classify", !.document_id = d,
                                                         !.call = runs_started']]
            /\ documents' = [documents EXCEPT ![d].processing_status = "processing"]

\* process_document(d) called from anywhere, as long as the model follows
Begin(w, d) ==
    /\ runs_started < MaxRuns
    /\ Called(w, d)
    /\ UNCHANGED task

\* a pipeline that fails the document it has no extraction for
SkippedAsFailed(doc, extracted_text, doc_type) ==
    [doc EXCEPT !.processing_status = "failed",
                !.extracted_text = extracted_text,
                !.document_type = doc_type]

\* lines 80 and 99-105 on the document row
Skipped(doc, extracted_text, doc_type) ==
    [doc EXCEPT !.processing_status = "completed",
                !.extracted_text = extracted_text,
                !.document_type = doc_type]

\* lines 51-106
Classify(w) ==
    LET r == run[w]
        d == r.document_id
        file == documents[d].file
        extracted_text == text_of(documents[d])
    IN  /\ r.pc = "classify"
        /\ UNCHANGED <<task, probe, session, calls, runs_started>>
        /\ TablesUnchanged
        /\ IF file_ext(file) \in ImageExts \/ file_ext(file) # ".pdf"
           THEN \* lines 67-73 for an image, lines 74-78 for any other type
                /\ documents' = [documents EXCEPT ![d].processing_status = "failed"]
                /\ run' = [run EXCEPT ![w] = Returned(r, "false")]
           ELSE IF extracted_text = <<>> \/ Len(strip(extracted_text)) < 20
           THEN \* lines 86-90
                /\ documents' = [documents EXCEPT ![d].processing_status = "failed",
                                                  ![d].extracted_text = extracted_text]
                /\ run' = [run EXCEPT ![w] = Returned(r, "false")]
           ELSE \E response \in ClassifierResponses :
                LET doc_type == classify_document(response)
                IN  IF doc_type = "other"
                    THEN /\ documents' = [documents EXCEPT
                                            ![d] = Skipped(@, extracted_text, doc_type)]
                         /\ run' = [run EXCEPT ![w] =
                                      Returned([r EXCEPT !.doc_type = doc_type], "true")]
                    ELSE /\ UNCHANGED documents
                         /\ run' = [run EXCEPT ![w] =
                                      [r EXCEPT !.pc = "match",
                                                !.extracted_text = extracted_text,
                                                !.doc_type = doc_type, !.dirty = TRUE]]

\* lines 118-124: the extractor is called on a template only
template_extraction(document_text, templates, template) ==
    IF template # None THEN extract_with_template(document_text, templates[template])
    ELSE [has_data |-> FALSE, data |-> <<>>, template_id |-> 0]

\* the rows of lines 32-35
Candidates(templates, document_type) ==
    {i \in Present(templates) :
        templates[i].document_type = document_type /\ templates[i].is_active}

\* a pipeline that records a failure against a template it does not accept
MatchRecordsFailure(w, score, template, template_result) ==
    LET r == run[w]
        d == r.document_id
        matched == [r EXCEPT !.template = template,
                             !.scores = [i \in Candidates(document_templates, r.doc_type)
                                            |-> score[i]]]
    IN  /\ UNCHANGED <<task, probe, session, calls, runs_started, extraction_logs, transactions, parties>>
        /\ IF template # None /\ template_result.has_data /\ template_result.data # <<>>
           THEN /\ document_templates' =
                        update_template_stats(document_templates, template, TRUE)
                /\ documents' = [documents EXCEPT ![d] = Flushed(@, r)]
                /\ run' = [run EXCEPT ![w] =
                             [matched EXCEPT !.pc = "log",
                                             !.structured_data = template_result.data,
                                             !.extraction_method = "template",
                                             !.template_id = template,
                                             !.stats_calls = @ + 1, !.dirty = FALSE]]
           ELSE /\ document_templates' =
                        IF template # None
                        THEN update_template_stats(document_templates, template, FALSE)
                        ELSE document_templates
                /\ UNCHANGED documents
                /\ run' = [run EXCEPT ![w] = [matched EXCEPT !.pc = "llm"]]

\* a pipeline whose matching step files the document with the template it
\* accepts
MatchAddsSample(w, score, template, template_result) ==
    LET r == run[w]
        d == r.document_id
        matched == [r EXCEPT !.template = template,
                             !.scores = [i \in Candidates(document_templates, r.doc_type)
                                            |-> score[i]]]
    IN  /\ UNCHANGED <<task, probe, session, calls, runs_started, extraction_logs, transactions, parties>>
        /\ IF template # None /\ template_result.has_data /\ template_result.data # <<>>
           THEN /\ document_templates' =
                        [update_template_stats(document_templates, template, TRUE)
                            EXCEPT ![template].sample_documents = Append(@, d)]
                /\ documents' = [documents EXCEPT ![d] = Flushed(@, r)]
                /\ run' = [run EXCEPT ![w] =
                             [matched EXCEPT !.pc = "log",
                                             !.structured_data = template_result.data,
                                             !.extraction_method = "template",
                                             !.template_id = template,
                                             !.stats_calls = @ + 1, !.dirty = FALSE]]
           ELSE /\ UNCHANGED <<document_templates, documents>>
                /\ run' = [run EXCEPT ![w] = [matched EXCEPT !.pc = "llm"]]

\* a pipeline that takes the result of any template the matcher returns
MatchTakesTemplate(w, score, template, template_result) ==
    LET r == run[w]
        d == r.document_id
        matched == [r EXCEPT !.template = template,
                             !.scores = [i \in Candidates(document_templates, r.doc_type)
                                            |-> score[i]]]
    IN  /\ UNCHANGED <<task, probe, session, calls, runs_started, extraction_logs, transactions, parties>>
        /\ IF template # None
           THEN /\ document_templates' =
                        update_template_stats(document_templates, template, TRUE)
                /\ documents' = [documents EXCEPT ![d] = Flushed(@, r)]
                /\ run' = [run EXCEPT ![w] =
                             [matched EXCEPT !.pc = "log",
                                             !.structured_data = template_result.data,
                                             !.extraction_method = "template",
                                             !.template_id = template,
                                             !.stats_calls = @ + 1, !.dirty = FALSE]]
           ELSE /\ UNCHANGED <<document_templates, documents>>
                /\ run' = [run EXCEPT ![w] = [matched EXCEPT !.pc = "llm"]]

\* lines 114-132, given the scores of the candidates, the matcher's answer and
\* what the extractor returns on it
MatchWith(w, score, template, template_result) ==
    LET r == run[w]
        d == r.document_id
        matched == [r EXCEPT !.template = template,
                             !.scores = [i \in Candidates(document_templates, r.doc_type)
                                            |-> score[i]]]
    IN  /\ UNCHANGED <<task, probe, session, calls, runs_started, extraction_logs, transactions, parties>>
        /\ IF template # None /\ template_result.has_data /\ template_result.data # <<>>
           THEN /\ document_templates' =
                        update_template_stats(document_templates, template, TRUE)
                /\ documents' = [documents EXCEPT ![d] = Flushed(@, r)]
                /\ run' = [run EXCEPT ![w] =
                             [matched EXCEPT !.pc = "log",
                                             !.structured_data = template_result.data,
                                             !.extraction_method = "template",
                                             !.template_id = template,
                                             !.stats_calls = @ + 1, !.dirty = FALSE]]
           ELSE /\ UNCHANGED <<document_templates, documents>>
                /\ run' = [run EXCEPT ![w] = [matched EXCEPT !.pc = "llm"]]

\* lines 108-132
Match(w) ==
    /\ run[w].pc = "match"
    /\ \E template \in find_matching_template(document_templates, run[w].extracted_text,
                                               run[w].doc_type) :
            MatchWith(w, match_scores(document_templates, run[w].extracted_text), template,
                template_extraction(run[w].extracted_text, document_templates, template))

\* the scores a scorer may give
OpenScores == {Rat(4, 10), Rat(6, 10), Rat(7, 10)}

\* lines 108-132 with the scores of line 45 left open: what process_document
\* does for any scorer
MatchScored(w) ==
    /\ run[w].pc = "match"
    /\ \E score \in [Present(document_templates) -> OpenScores] :
            \E best \in loop_outcomes(document_templates, run[w].doc_type, score) :
                MatchWith(w, score, accept_match(best),
                    template_extraction(run[w].extracted_text, document_templates,
                                        accept_match(best)))

\* lines 135-142, and the test of line 145
CallLLM(w) ==
    LET r == run[w]
    IN  /\ r.pc = "llm"
        /\ UNCHANGED <<task, probe, session, calls, runs_started, documents>>
        /\ TablesUnchanged
        /\ \E data \in llm_dicts(documents[r.document_id].file, r.doc_type) :
                run' = [run EXCEPT ![w] =
                          [r EXCEPT !.structured_data = data,
                                    !.llm_calls = @ + 1,
                                    !.pc = IF Truthy(DictGet(data, "amount"))
                                           THEN "learn" ELSE "log"]]

\* a pipeline that learns no template of a type and a layout it has one of
LearnDeduplicated(w) ==
    LET r == run[w]
        d == r.document_id
        known == \E i \in Present(document_templates) :
                    /\ document_templates[i].document_type = r.doc_type
                    /\ document_templates[i].layout_signature =
                            _generate_layout_signature(r.extracted_text)
    IN  /\ r.pc = "learn"
        /\ UNCHANGED <<task, probe, session, calls, runs_started, extraction_logs, transactions, parties>>
        /\ documents' = [documents EXCEPT ![d] = Flushed(@, r)]
        /\ IF known
           THEN /\ UNCHANGED document_templates
                /\ run' = [run EXCEPT ![w] = [r EXCEPT !.pc = "log", !.dirty = FALSE]]
           ELSE \E row \in create_template_from_extraction(document_templates, d, r.doc_type,
                                r.structured_data, r.extracted_text) :
                    /\ document_templates' = Append(document_templates, row)
                    /\ run' = [run EXCEPT ![w] =
                                 [r EXCEPT !.pc = "log", !.learner_calls = @ + 1,
                                           !.created = row.id, !.dirty = FALSE]]

\* lines 146-152
Learn(w) ==
    LET r == run[w]
        d == r.document_id
    IN  /\ r.pc = "learn"
        /\ UNCHANGED <<task, probe, session, calls, runs_started, extraction_logs, transactions, parties>>
        /\ \E row \in create_template_from_extraction(document_templates, d, r.doc_type,
                            r.structured_data, r.extracted_text) :
                /\ document_templates' = Append(document_templates, row)
                /\ documents' = [documents EXCEPT ![d] = Flushed(@, r)]
                /\ run' = [run EXCEPT ![w] =
                             [r EXCEPT !.pc = "log", !.learner_calls = @ + 1,
                                       !.created = row.id, !.dirty = FALSE]]

\* a pipeline that logs the template the matcher returned, accepted or not
LogWithMatched(w) ==
    LET r == run[w]
        d == r.document_id
    IN  /\ r.pc = "log"
        /\ UNCHANGED <<task, probe, session, calls, runs_started, document_templates, transactions, parties>>
        /\ extraction_logs' = log_extraction(extraction_logs, d, r.template,
                                  r.extraction_method, r.structured_data,
                                  r.structured_data # <<>>)
        /\ documents' = [documents EXCEPT ![d] = Flushed(@, r)]
        /\ run' = [run EXCEPT ![w] = [r EXCEPT !.pc = "finish", !.dirty = FALSE,
                                                 !.logs_added = @ + 1]]

\* lines 154-164
Log(w) ==
    LET r == run[w]
        d == r.document_id
    IN  /\ r.pc = "log"
        /\ UNCHANGED <<task, probe, session, calls, runs_started, document_templates, transactions, parties>>
        /\ extraction_logs' = log_extraction(extraction_logs, d, r.template_id,
                                  r.extraction_method, r.structured_data,
                                  r.structured_data # <<>>)
        /\ documents' = [documents EXCEPT ![d] = Flushed(@, r)]
        /\ run' = [run EXCEPT ![w] = [r EXCEPT !.pc = "finish", !.dirty = FALSE,
                                                 !.logs_added = @ + 1]]

\* a pipeline that fails the document it found no amount in
CompletedWithAmount(doc, structured_data) ==
    [doc EXCEPT !.has_extracted_data = TRUE,
                !.extracted_data = structured_data,
                !.processing_status = IF IsGiven(DictGet(structured_data, "amount"))
                                      THEN "completed" ELSE "failed"]

\* lines 166 and 190-193 on the document row
Completed(doc, structured_data) ==
    [doc EXCEPT !.has_extracted_data = TRUE,
                !.extracted_data = structured_data,
                !.processing_status = "completed"]

\* lines 166-204
Finish(w) ==
    LET r == run[w]
        d == r.document_id
        data == r.structured_data
        party_name == IF Truthy(DictGet(data, "merchant")) THEN DictGet(data, "merchant")
                      ELSE DictGet(data, "vendor")
        party == IF Truthy(party_name) THEN _find_or_create_party(parties, party_name.str)
                 ELSE [parties |-> parties, id |-> None]
        currency == IF \E i \in DOMAIN data : data[i].name = "currency"
                    THEN DictGet(data, "currency") ELSE StrVal(USD)
    IN  /\ r.pc = "finish"
        /\ UNCHANGED <<task, probe, session, calls, runs_started, document_templates, extraction_logs>>
        /\ parties' = party.parties
        /\ transactions' =
                IF Truthy(DictGet(data, "amount"))
                THEN Append(transactions,
                        [document_id |-> d, party_id |-> party.id,
                         amount |-> DictGet(data, "amount").num,
                         currency |-> currency, transaction_type |-> r.doc_type])
                ELSE transactions
        /\ documents' = [documents EXCEPT ![d] = Removed(Completed(Flushed(@, r), data))]
        /\ run' = [run EXCEPT ![w] = Returned(r, "true")]

\* lines 176-186 raise.  The keyword transaction_metadata of line 185 names no
\* attribute of Transaction, whose column is declared as metadata (models.py
\* line 113), and a declarative constructor raises TypeError for such a
\* keyword; the constructor is inherited from Base, which database.py defines
\* and the source at hand does not hold, so the call is followed both ways:
\* Finish when it returns, this step when it raises.  The session is intact
\* and holds line 166 and the party of lines 168-173.  Control passes to line
\* 206.
FinishRaises(w) ==
    LET r == run[w]
    IN  /\ r.pc = "finish"
        /\ Truthy(DictGet(r.structured_data, "amount"))
        /\ UNCHANGED <<task, probe, session, calls, runs_started, documents>>
        /\ TablesUnchanged
        /\ run' = [run EXCEPT ![w] = [r EXCEPT !.pc = "except", !.exc = "constructor"]]

\* A call that leaves the process raises: the text extraction or the
\* classification request (line 57 or 94), the extraction request (line 137,
\* or the answer is JSON but no object and .get raises at line 145); the
\* session keeps what it has not committed.  Or the query of line 109 or the
\* commit of line 147, 156 or 193 fails, and the session's transaction is
\* rolled back.  Control passes to line 206.
Raise(w) ==
    LET r == run[w]
    IN  /\ r.pc \in {"classify", "match", "llm", "learn", "log", "finish"}
        /\ UNCHANGED <<task, probe, session, calls, runs_started, documents>>
        /\ TablesUnchanged
        /\ run' = [run EXCEPT ![w] =
                     CASE r.pc = "classify" -> [r EXCEPT !.pc = "except", !.exc = "app"]
                       [] r.pc = "llm" ->
                            [r EXCEPT !.pc = "except", !.exc = "app", !.llm_calls = @ + 1]
                       [] r.pc = "learn" ->
                            [r EXCEPT !.pc = "except", !.exc = "db", !.dirty = FALSE,
                                      !.learner_calls = @ + 1]
                       [] OTHER -> [r EXCEPT !.pc = "except", !.exc = "db", !.dirty = FALSE]]

\* a handler that fails every document there is
ExceptFailsAll(w) ==
    /\ run[w].pc = "except"
    /\ UNCHANGED <<task, probe, session, calls, runs_started>>
    /\ TablesUnchanged
    /\ documents' = [d \in DOMAIN documents |->
                        [documents[d] EXCEPT !.processing_status = "failed"]]
    /\ run' = [run EXCEPT ![w] = Returned(run[w], "false")]

\* lines 168-173: the party the run's result names, found or added
party_of(rows, data) ==
    LET party_name == IF Truthy(DictGet(data, "merchant")) THEN DictGet(data, "merchant")
                      ELSE DictGet(data, "vendor")
    IN  IF Truthy(party_name) THEN _find_or_create_party(rows, party_name.str)
        ELSE [parties |-> rows, id |-> None]

\* line 166, which the session holds when the constructor of line 177 raises
Assigned(doc, r) ==
    IF r.exc = "constructor"
    THEN [doc EXCEPT !.has_extracted_data = TRUE, !.extracted_data = r.structured_data]
    ELSE doc

\* lines 206-219; the commit of line 209 writes what the session holds: after
\* a constructor that raised, line 166 and the party flushed at line 240
Except(w) ==
    LET r == run[w]
        d == r.document_id
    IN  /\ r.pc = "except"
        /\ UNCHANGED <<task, probe, session, calls, runs_started>>
        /\ UNCHANGED <<document_templates, extraction_logs, transactions>>
        /\ parties' = IF r.exc = "constructor" THEN party_of(parties, r.structured_data).parties
                      ELSE parties
        /\ documents' = [documents EXCEPT ![d] =
                            Removed([Assigned(Flushed(@, r), r)
                                        EXCEPT !.processing_status = "failed"])]
        /\ run' = [run EXCEPT ![w] = Returned(r, "false")]

\* the commit of line 209 fails too: the exception leaves process_document
ExceptRaises(w) ==
    LET r == run[w]
    IN  /\ r.pc = "except"
        /\ UNCHANGED <<task, probe, session, calls, runs_started, documents>>
        /\ TablesUnchanged
        /\ run' = [run EXCEPT ![w] = Returned(r, "raised")]

\* process_document apart from the matcher
Step(w) ==
    \/ \E d \in DocIds \cup {MissingDoc} : Begin(w, d)
    \/ Classify(w)
    \/ CallLLM(w)
    \/ Learn(w)
    \/ Log(w)
    \/ Finish(w)
    \/ FinishRaises(w)
    \/ Raise(w)
    \/ Except(w)
    \/ ExceptRaises(w)

Next == \E w \in Workers : Match(w) \/ Step(w)

Spec == Init /\ [][Next]_vars

\* the pipeline for any scorer, on documents the extractor resolves fully
\* (b.pdf) or without an amount (c.pdf)
InitOrch ==
    /\ \E file \in {"b.pdf", "c.pdf"} :
            documents = [d \in DocIds |-> NewDocument(IF d = 1 THEN "a.pdf" ELSE file)]
    /\ document_templates = <<>>
    /\ extraction_logs = <<>>
    /\ transactions = <<>>
    /\ parties = <<>>
    /\ run = [w \in Workers |-> IdleRun]
    /\ runs_started = 0
    /\ session = [w \in Workers |-> IdleSession]
    /\ calls = [t \in TemplateIds |-> 0]
    /\ probe = NoProbe
    /\ task = NoTask

NextOrch == \E w \in Workers : MatchScored(w) \/ Step(w)

SpecOrch == InitOrch /\ [][NextOrch]_vars
(***************************************************************************)
(* The Celery task process_uploaded_document(document_id): one task, the   *)
(* calls of process_document it makes and the retries it asks for.         *)
(***************************************************************************)
\* max_retries of the task decorator
max_retries == 3

InitTask ==
    /\ documents = [d \in DocIds |-> NewDocument(IF d = 1 THEN "a.pdf" ELSE "scan.png")]
    /\ document_templates = <<>>
    /\ extraction_logs = <<>>
    /\ transactions = <<>>
    /\ parties = <<>>
    /\ run = [w \in Workers |-> IdleRun]
    /\ runs_started = 0
    /\ session = [w \in Workers |-> IdleSession]
    /\ calls = [t \in TemplateIds |-> 0]
    /\ probe = NoProbe
    /\ \E d \in DocIds \cup {MissingDoc} :
            task = [NoTask EXCEPT !.pc = "queued", !.document_id = d]

\* lines 24-28: a worker takes the task, or its retry, and calls
\* process_document
TaskBegin(w) ==
    /\ task.pc \in {"queued", "retrying"}
    /\ Called(w, task.document_id)
    /\ task' = [task EXCEPT !.pc = "running", !.worker = w]

\* lines 30-51: process_document has returned True or False, or an exception
\* has left it; nothing of the call is kept
TaskEnd(w) ==
    /\ task.pc = "running"
    /\ task.worker = w
    /\ run[w].pc = "done"
    /\ task' = CASE run[w].ret = "true" ->
                        [task EXCEPT !.pc = "returned", !.status = "success"]
                 [] run[w].ret = "false" ->
                        [task EXCEPT !.pc = "returned", !.status = "failed"]
                 [] OTHER ->
                        IF task.retries < max_retries
                        THEN [task EXCEPT !.pc = "retrying", !.retries = @ + 1]
                        ELSE [task EXCEPT !.pc = "returned", !.status = "error"]
    /\ run' = [run EXCEPT ![w] = IdleRun]
    /\ UNCHANGED <<documents, runs_started, probe, session, calls>>
    /\ TablesUnchanged

NextTask ==
    \E w \in Workers :
        \/ TaskBegin(w)
        \/ Classify(w)
        \/ Match(w)
        \/ CallLLM(w)
        \/ Learn(w)
        \/ Log(w)
        \/ Finish(w)
        \/ FinishRaises(w)
        \/ Raise(w)
        \/ Except(w)
        \/ ExceptRaises(w)
        \/ TaskEnd(w)

SpecTask == InitTask /\ [][NextTask]_vars

(***************************************************************************)
(* TemplateService called on its own: the learner and the statistics       *)
(* updater, first call after call, then with the calls of several workers  *)
(* interleaved.                                                            *)
(***************************************************************************)
LibUnchanged ==
    UNCHANGED <<documents, extraction_logs, transactions, parties, run, runs_started>>

InitLib ==
    /\ documents = [d \in DocIds |-> NewDocument(IF d = 1 THEN "a.pdf" ELSE "b.pdf")]
    /\ document_templates = <<>>
    /\ extraction_logs = <<>>
    /\ transactions = <<>>
    /\ parties = <<>>
    /\ run = [w \in Workers |-> IdleRun]
    /\ runs_started = 0
    /\ session = [w \in Workers |-> IdleSession]
    /\ calls = [t \in TemplateIds |-> 0]
    /\ probe = NoProbe
    /\ task = NoTask

RECURSIVE SumUpTo(_, _)
SumUpTo(f, n) == IF n = 0 THEN 0 ELSE f[n] + SumUpTo(f, n - 1)
\* the calls of update_template_stats that have returned
TotalCalls == SumUpTo(calls, MaxTemplates)

\* what the LLM extracts from document d in full
FullExtraction(d) ==
    <<Item("amount", FloatVal(AmountIn(documents[d].file))), Item("vendor", StrVal(AcmeCorp))>>

\* create_template_from_extraction(d, document_type, ...), lines 214-241
CreateTemplate(d, document_type) ==
    /\ Len(document_templates) < MaxTemplates
    /\ \E row \in create_template_from_extraction(document_templates, d, document_type,
                        FullExtraction(d), pdf_text(documents[d].file)) :
            document_templates' = Append(document_templates, row)
    /\ UNCHANGED <<task, probe, session, calls>>
    /\ LibUnchanged

\* update_template_stats(t, success), lines 335-348, the call as a whole
UpdateStats(t, success) ==
    /\ TotalCalls < MaxCalls
    /\ document_templates' = update_template_stats(document_templates, t, success)
    /\ calls' = [calls EXCEPT ![t] = @ + 1]
    /\ UNCHANGED <<task, probe, session>>
    /\ LibUnchanged

NextLib ==
    \/ \E d \in DocIds, document_type \in {"invoice", "receipt"} :
            CreateTemplate(d, document_type)
    \/ \E t \in TemplateIds, success \in BOOLEAN : UpdateStats(t, success)

SpecLib == InitLib /\ [][NextLib]_vars

\* One template, minted from document 1; every worker has its own session.
InitConc ==
    /\ documents = [d \in DocIds |-> NewDocument(IF d = 1 THEN "a.pdf" ELSE "b.pdf")]
    /\ \E row \in create_template_from_extraction(<<>>, 1, "invoice",
                        FullExtraction(1), TextA) :
            document_templates = <<row>>
    /\ extraction_logs = <<>>
    /\ transactions = <<>>
    /\ parties = <<>>
    /\ run = [w \in Workers |-> IdleRun]
    /\ runs_started = 0
    /\ session = [w \in Workers |-> IdleSession]
    /\ calls = [t \in TemplateIds |-> 0]
    /\ probe = NoProbe
    /\ task = NoTask

\* the calls of update_template_stats that have begun
CallsBegun == TotalCalls + Cardinality({w \in Workers : session[w].pc = "loaded"})

\* lines 335-337: the worker's session loads the row, if there is one
StatsRead(w, t) ==
    /\ session[w].pc = "idle"
    /\ CallsBegun < MaxCalls
    /\ session' = [session EXCEPT ![w] =
                     IF t \in Present(document_templates)
                     THEN [pc |-> "loaded", template_id |-> t, found |-> TRUE,
                           usage_count |-> document_templates[t].usage_count,
                           success_count |-> document_templates[t].success_count,
                           confidence_score |-> document_templates[t].confidence_score]
                     ELSE [IdleSession EXCEPT !.pc = "loaded", !.template_id = t]]
    /\ UNCHANGED <<task, probe, document_templates, calls>>
    /\ LibUnchanged

\* the UPDATE the commit of line 348 issues: the columns whose value the
\* session has changed, whatever the row holds by now
Written(row, loaded, updated) ==
    [row EXCEPT
        !.usage_count = IF updated.usage_count # loaded.usage_count
                        THEN updated.usage_count ELSE @,
        !.success_count = IF updated.success_count # loaded.success_count
                          THEN updated.success_count ELSE @,
        !.confidence_score = IF updated.confidence_score # loaded.confidence_score
                             THEN updated.confidence_score ELSE @]

\* lines 339-348 of update_template_stats(t, success=True)
StatsCommit(w) ==
    LET loaded == session[w]
    IN  /\ loaded.pc = "loaded"
        /\ document_templates' =
                IF loaded.found
                THEN [document_templates EXCEPT ![loaded.template_id] =
                        Written(@, loaded, stats_updated(loaded, TRUE))]
                ELSE document_templates
        /\ calls' = [calls EXCEPT ![loaded.template_id] = @ + 1]
        /\ session' = [session EXCEPT ![w] = IdleSession]
        /\ UNCHANGED <<task, probe>>
        /\ LibUnchanged

NextConc ==
    \E w \in Workers :
        \/ \E t \in TemplateIds : StatsRead(w, t)
        \/ StatsCommit(w)

SpecConc == InitConc /\ [][NextConc]_vars
(***************************************************************************)
(* The matcher and delete_template called on their own, on any table the   *)
(* schema allows: rows of either type, active or not, fresh from the       *)
(* learner or with the columns' defaults for the statistics.  The scorer   *)
(* of line 45 is left open.                                                *)
(***************************************************************************)
\* the rows the table may hold under the id: a learned row, with any value of
\* is_active, and the statistics as minted or as the columns default
stored_rows(id) ==
    {[row EXCEPT !.id = id, !.is_active = active,
                 !.usage_count = used, !.success_count = used,
                 !.confidence_score = IF used = 0 THEN RZero ELSE ROne] :
        row \in UNION {create_template_from_extraction(<<>>, 1, document_type,
                            FullExtraction(1), TextA) :
                        document_type \in {"invoice", "receipt"}},
        active \in BOOLEAN, used \in {0, 1}}

InitMatch ==
    /\ documents = [d \in DocIds |-> NewDocument(IF d = 1 THEN "a.pdf" ELSE "b.pdf")]
    /\ document_templates \in [TemplateIds -> UNION {stored_rows(t) : t \in TemplateIds}]
    /\ \A t \in TemplateIds : document_templates[t].id = t
    /\ extraction_logs = <<>>
    /\ transactions = <<>>
    /\ parties = <<>>
    /\ run = [w \in Workers |-> IdleRun]
    /\ runs_started = 0
    /\ session = [w \in Workers |-> IdleSession]
    /\ calls = [t \in TemplateIds |-> 0]
    /\ probe = NoProbe
    /\ task = NoTask

\* find_matching_template(text, document_type), lines 32-54, for any score
\* line 45 may compute for a row; the call's answer and the scores are kept
FindTemplate(w, document_type) ==
    /\ \E score \in [Present(document_templates) -> OpenScores] :
            \E best \in loop_outcomes(document_templates, document_type, score) :
                run' = [run EXCEPT ![w] = [IdleRun EXCEPT !.pc = "matched",
                                                         !.doc_type = document_type,
                                                         !.template = accept_match(best),
                                                         !.scores = score]]
    /\ UNCHANGED <<documents, document_templates, extraction_logs, transactions, parties,
                   runs_started, session, calls, probe, task>>

\* delete_template(t), lines 394-401
DeleteTemplate(t) ==
    /\ document_templates' =
            IF t \in Present(document_templates)
            THEN [document_templates EXCEPT ![t].present = FALSE]
            ELSE document_templates
    /\ UNCHANGED <<task, probe, session, calls>>
    /\ LibUnchanged

NextMatch ==
    \/ \E w \in Workers, document_type \in {"invoice", "receipt"} :
            FindTemplate(w, document_type)
    \/ \E t \in TemplateIds : DeleteTemplate(t)

SpecMatch == InitMatch /\ [][NextMatch]_vars

\* the same pipeline on a table that already holds a template, learned from a
\* document with the text of a.pdf that is no longer in the table; its
\* template_schema is as learned or, the column being nullable, missing
InitAgain ==
    /\ documents = [d \in DocIds |-> NewDocument(IF d = 1 THEN "a.pdf" ELSE "scan.png")]
    /\ \E row \in create_template_from_extraction(<<>>, MissingDoc, "invoice",
                                                   FullExtraction(1), TextA) :
            \E schema \in {row.template_schema, NoSchema} :
                document_templates = <<[row EXCEPT !.template_schema = schema]>>
    /\ extraction_logs = <<>>
    /\ transactions = <<>>
    /\ parties = <<>>
    /\ run = [w \in Workers |-> IdleRun]
    /\ runs_started = 0
    /\ session = [w \in Workers |-> IdleSession]
    /\ calls = [t \in TemplateIds |-> 0]
    /\ probe = NoProbe
    /\ task = NoTask

SpecAgain == InitAgain /\ [][NextOrch]_vars

(***************************************************************************)
(* TemplateService._extract_field called on its own, on a few texts with   *)
(* every list of up to MaxLabels of the labels below and every field type. *)
(***************************************************************************)
\* the labels a field's pattern list may hold
LabelTotal == <<"T", "o", "t", "a", "l", ":">>
LabelAmount == <<"A", "m", "o", "u", "n", "t", ":">>
LabelDate == <<"D", "a", "t", "e", ":">>
FieldLabels == {LabelTotal, LabelAmount, LabelDate}

\* "Amount: 50.00": no "Total:"
FieldTextAmount ==
    <<"A", "m", "o", "u", "n", "t", ":", " ", "5", "0", ".", "0", "0">>
\* "total: ,\nAmount: 50.00": what follows "total:" has the shape of a number
\* and is none
FieldTextComma ==
    <<"t", "o", "t", "a", "l", ":", " ", ",", "\n", "A", "m", "o", "u", "n",
      "t", ":", " ", "5", "0", ".", "0", "0">>
\* "Total: 7.50\nAmount: 50.00"
FieldTextBoth ==
    <<"T", "o", "t", "a", "l", ":", " ", "7", ".", "5", "0", "\n", "A", "m",
      "o", "u", "n", "t", ":", " ", "5", "0", ".", "0", "0">>
\* "Date: 1/2/24\nTotal: 7.50"
FieldTextDate ==
    <<"D", "a", "t", "e", ":", " ", "1", "/", "2", "/", "2", "4", "\n", "T",
      "o", "t", "a", "l", ":", " ", "7", ".", "5", "0">>
\* "nothing": no label at all
FieldTextNone ==
    <<"n", "o", "t", "h", "i", "n", "g">>
FieldTexts == {FieldTextAmount, FieldTextComma, FieldTextBoth, FieldTextDate, FieldTextNone}

\* the longest pattern list the model tries
MaxLabels == 2

PatternLists == UNION {[1..n -> FieldLabels] : n \in 0..MaxLabels}

\* the tables and the runs when only a function of the service is called
ServiceIdle ==
    /\ documents = [d \in DocIds |-> NewDocument(IF d = 1 THEN "a.pdf" ELSE "b.pdf")]
    /\ document_templates = <<>>
    /\ extraction_logs = <<>>
    /\ transactions = <<>>
    /\ parties = <<>>
    /\ run = [w \in Workers |-> IdleRun]
    /\ runs_started = 0
    /\ session = [w \in Workers |-> IdleSession]
    /\ calls = [t \in TemplateIds |-> 0]
    /\ task = NoTask

InitField ==
    /\ ServiceIdle
    /\ \E text \in FieldTexts, patterns \in PatternLists,
          field_type \in {"float", "date", "string"} :
            probe = [op |-> "call", text |-> text, patterns |-> patterns,
                     field_type |-> field_type, result |-> NotFound]

\* _extract_field(text, patterns, field_type), lines 168-193
ExtractField ==
    /\ probe.op = "call"
    /\ probe' = [probe EXCEPT !.op = "_extract_field",
                              !.result = _extract_field(probe.text, probe.patterns,
                                                        probe.field_type)]
    /\ UNCHANGED <<task, session, calls, document_templates>>
    /\ LibUnchanged

SpecField == InitField /\ [][ExtractField]_vars

(***************************************************************************)
(* The learner, the matcher and the extractor called one after the other   *)
(* on one text: a template is learned from the text and fields read from   *)
(* it, then looked up for the same text and applied to it.                 *)
(***************************************************************************)
\* "Acme Corp\nDate: 2024-01-15\nTotal: 123.45": every value behind a label or at the start of a line
RoundTextLabelled ==
    <<"A", "c", "m", "e", " ", "C", "o", "r", "p", "\n", "D", "a", "t", "e",
      ":", " ", "2", "0", "2", "4", "-", "0", "1", "-", "1", "5", "\n", "T",
      "o", "t", "a", "l", ":", " ", "1", "2", "3", ".", "4", "5">>
\* "Acme Corp\n2024-01-15\nInvoice total: $123.45": a currency sign between the label and the amount
RoundTextDollar ==
    <<"A", "c", "m", "e", " ", "C", "o", "r", "p", "\n", "2", "0", "2", "4",
      "-", "0", "1", "-", "1", "5", "\n", "I", "n", "v", "o", "i", "c", "e",
      " ", "t", "o", "t", "a", "l", ":", " ", "$", "1", "2", "3", ".", "4",
      "5">>
\* "123.45 due to Acme Corp by 2024-01-15": the amount at the start, behind no label
RoundTextBare ==
    <<"1", "2", "3", ".", "4", "5", " ", "d", "u", "e", " ", "t", "o", " ",
      "A", "c", "m", "e", " ", "C", "o", "r", "p", " ", "b", "y", " ", "2",
      "0", "2", "4", "-", "0", "1", "-", "1", "5">>
\* "Acme Corp invoice\n2024-01-15\nTotal: 123.45\nDue: 123.45": the amount behind two labels
RoundTextTwice ==
    <<"A", "c", "m", "e", " ", "C", "o", "r", "p", " ", "i", "n", "v", "o",
      "i", "c", "e", "\n", "2", "0", "2", "4", "-", "0", "1", "-", "1", "5",
      "\n", "T", "o", "t", "a", "l", ":", " ", "1", "2", "3", ".", "4", "5",
      "\n", "D", "u", "e", ":", " ", "1", "2", "3", ".", "4", "5">>
RoundTexts == {RoundTextLabelled, RoundTextDollar, RoundTextBare, RoundTextTwice}

Date20240115 == <<"2", "0", "2", "4", "-", "0", "1", "-", "1", "5">>

\* what was extracted from the text: the amount 123.45, with or without the
\* date and the vendor
RoundFields ==
    {<<Item("amount", FloatVal(Rat(12345, 100)))>> \o date \o vendor :
        date \in {<<>>, <<Item("date", StrVal(Date20240115))>>},
        vendor \in {<<>>, <<Item("vendor", StrVal(AcmeCorp))>>}}

InitRound ==
    /\ ServiceIdle
    /\ \E text \in RoundTexts, document_type \in {"invoice", "receipt"},
          fields \in RoundFields :
            probe = [op |-> "call", text |-> text, document_type |-> document_type,
                     fields |-> fields, learned |-> None, template |-> None,
                     result |-> [has_data |-> FALSE, data |-> <<>>, template_id |-> 0]]

\* create_template_from_extraction(1, document_type, fields, text), lines 195-241
LearnOwn ==
    /\ probe.op = "call"
    /\ \E row \in create_template_from_extraction(document_templates, 1,
                        probe.document_type, probe.fields, probe.text) :
            /\ document_templates' = Append(document_templates, row)
            /\ probe' = [probe EXCEPT !.op = "learned", !.learned = row.id]
    /\ UNCHANGED <<task, session, calls>>
    /\ LibUnchanged

\* find_matching_template(text, document_type), lines 16-54
MatchOwn ==
    /\ probe.op = "learned"
    /\ \E template \in find_matching_template(document_templates, probe.text,
                                               probe.document_type) :
            probe' = [probe EXCEPT !.op = "matched", !.template = template]
    /\ UNCHANGED <<task, session, calls, document_templates>>
    /\ LibUnchanged

\* extract_with_template(text, template), lines 111-154, on the template that
\* was learned
ExtractOwn ==
    /\ probe.op = "matched"
    /\ probe' = [probe EXCEPT !.op = "extracted",
                              !.result = extract_with_template(probe.text,
                                              document_templates[probe.learned])]
    /\ UNCHANGED <<task, session, calls, document_templates>>
    /\ LibUnchanged

NextRound == LearnOwn \/ MatchOwn \/ ExtractOwn

SpecRound == InitRound /\ [][NextRound]_vars

(***************************************************************************)
(* TemplateService._generate_layout_signature called on its own, on every  *)
(* text of up to MaxLayoutLen characters of LayoutChars and on a few texts *)
(* that hold a date.  The digest is the record it is computed from.        *)
(***************************************************************************)
MaxLayoutLen == 3
LayoutChars == {"a", "\n", "|", "$", "1", ","}
LayoutTexts ==
    UNION {[1..n -> LayoutChars] : n \in 0..MaxLayoutLen}
        \cup {FieldTextDate, TextA, RoundTextDollar}

InitLayout ==
    /\ ServiceIdle
    /\ \E text \in LayoutTexts :
            probe = [op |-> "call", text |-> text, signature |-> NoSignature]

\* _generate_layout_signature(text), lines 98-109
LayoutSignature ==
    /\ probe.op = "call"
    /\ probe' = [probe EXCEPT !.op = "_generate_layout_signature",
                              !.signature = _generate_layout_signature(probe.text)]
    /\ UNCHANGED <<task, session, calls, document_templates>>
    /\ LibUnchanged

SpecLayout == InitLayout /\ [][LayoutSignature]_vars

(***************************************************************************)
(* create_template_from_extraction called by several workers at once, each *)
(* in a session of its own: the count query of line 215 and the commit of  *)
(* line 238 are two steps.                                                 *)
(***************************************************************************)
\* the templates the workers create between them
MaxLearned == 3

InitLearn ==
    /\ ServiceIdle
    /\ probe = NoProbe

\* the calls of the learner that have counted and not committed
Counted == {w \in Workers : session[w].pc = "counted"}

\* line 215: the worker's session counts the templates of the type
CountRead(w, d, document_type) ==
    /\ session[w].pc = "idle"
    /\ Len(document_templates) + Cardinality(Counted) < MaxLearned
    /\ session' = [session EXCEPT ![w] =
                     [pc |-> "counted", document_id |-> d, document_type |-> document_type,
                      count |-> _get_template_count(document_templates, document_type)]]
    /\ UNCHANGED <<task, probe, document_templates, calls>>
    /\ LibUnchanged

\* lines 217-241: the row is built with the name of line 215 and committed
CreateCommit(w) ==
    LET c == session[w]
        document_text == pdf_text(documents[c.document_id].file)
    IN  /\ c.pc = "counted"
        /\ \E kw \in _extract_keywords(document_text, c.document_type) :
            \E schema \in _generate_template_schema(FullExtraction(c.document_id),
                                                     document_text) :
                document_templates' =
                    Append(document_templates,
                           new_template(Len(document_templates) + 1, c.count + 1,
                                        c.document_id, c.document_type, kw, schema,
                                        _generate_layout_signature(document_text)))
        /\ session' = [session EXCEPT ![w] = IdleSession]
        /\ UNCHANGED <<task, probe, calls>>
        /\ LibUnchanged

NextLearn ==
    \E w \in Workers :
        \/ \E d \in DocIds, document_type \in {"invoice", "receipt"} :
                CountRead(w, d, document_type)
        \/ CreateCommit(w)

SpecLearn == InitLearn /\ [][NextLearn]_vars

(***************************************************************************)
(* Properties.                                                             *)
(***************************************************************************)
\* the result holds an amount that is a number other than zero
HasUsableAmount(data) ==
    \E i \in DOMAIN data :
        /\ data[i].name = "amount"
        /\ data[i].value.kind \in {"int", "float"}
        /\ data[i].value.num.n # 0

\* the run has the matcher's answer and has not returned or raised since
AfterMatch(w) == run[w].pc \in {"llm", "learn", "log", "finish"}

\* C1: with update_template_stats called any number of times, with success
\* true or false, every template has success_count <= usage_count, and its
\* confidence_score is success_count / usage_count (0 when usage_count is 0).
StatsConsistent ==
    \A t \in Present(document_templates) :
        /\ document_templates[t].success_count <= document_templates[t].usage_count
        /\ document_templates[t].confidence_score =
                IF document_templates[t].usage_count = 0 THEN RZero
                ELSE Rat(document_templates[t].success_count,
                         document_templates[t].usage_count)

\* three calls on a minted template, one of them with success true
StatsMixed ==
    \E t \in Present(document_templates) :
        /\ calls[t] = 3
        /\ document_templates[t].usage_count = 4
        /\ document_templates[t].success_count = 2
        /\ document_templates[t].confidence_score = Rat(1, 2)

\* C2: when every call of update_template_stats(t, success=True) that was
\* begun has returned, usage_count and success_count of t have each grown by
\* the number of these calls, however the workers' steps interleaved.
NoLostUpdate ==
    (\A w \in Workers : session[w].pc = "idle") =>
        \A t \in Present(document_templates) :
            /\ document_templates[t].usage_count = 1 + calls[t]
            /\ document_templates[t].success_count = 1 + calls[t]

\* C3: the matcher returns a template only if the best score of the
\* candidates is strictly above 0.6, and then a template with that best score;
\* with a best score of 0.6 or less it returns None.
ThresholdStrict ==
    \A w \in Workers :
        AfterMatch(w) =>
            IF \E i \in DOMAIN run[w].scores : RLess(Rat(6, 10), run[w].scores[i])
            THEN /\ run[w].template \in DOMAIN run[w].scores
                 /\ \A i \in DOMAIN run[w].scores :
                        ~RLess(run[w].scores[run[w].template], run[w].scores[i])
            ELSE run[w].template = None

\* the best candidate scores 0.6 exactly, and the matcher has returned None
ThresholdBoundaryRejected ==
    \E w \in Workers :
        /\ AfterMatch(w)
        /\ \E i \in DOMAIN run[w].scores : run[w].scores[i] = Rat(6, 10)
        /\ \A i \in DOMAIN run[w].scores : ~RLess(Rat(6, 10), run[w].scores[i])
        /\ run[w].template = None

\* the score the matching aids of a template give a text when the weighted
\* sub-scores are divided by the sum of the weights of the aids present
WeightedScore(text, template) ==
    LET aids ==
            (IF template.keywords # {}
             THEN <<[s |-> _match_keywords(text, template.keywords), w |-> Rat(4, 10)]>>
             ELSE <<>>)
         \o (IF template.vendor_pattern # NoPattern
             THEN <<[s |-> IF Contains(lower(text), lower(template.vendor_pattern))
                           THEN ROne ELSE RZero, w |-> Rat(3, 10)]>>
             ELSE <<>>)
         \o (IF template.layout_signature # NoSignature
             THEN <<[s |-> _match_layout(text, template.layout_signature), w |-> Rat(3, 10)]>>
             ELSE <<>>)
        num == RSum([i \in DOMAIN aids |-> RMul(aids[i].s, aids[i].w)])
        den == RSum([i \in DOMAIN aids |-> aids[i].w])
    IN  IF aids = <<>> THEN RZero ELSE Rat(num.n * den.d, num.d * den.n)

\* C4: the score the matcher gives a candidate is the sum of its weighted
\* sub-scores divided by the sum of the weights of the aids the template has.
ScoreByWeights ==
    \A w \in Workers :
        AfterMatch(w) =>
            \A i \in DOMAIN run[w].scores :
                run[w].scores[i] = WeightedScore(run[w].extracted_text, document_templates[i])

\* C5: in a run on a document that is not 'other', with no template of its
\* type, the matcher returns None and the LLM extractor is called; if its
\* result has a usable amount the learner is called, and the learner's commit
\* adds exactly one template, of that type, with usage_count 1, success_count
\* 1, confidence_score 1.0 and sample_documents [the document's id].
LearningScenario ==
    [][\A w \in Workers :
        /\ (/\ run[w].pc = "match"
            /\ run'[w].pc \in {"llm", "log"}
            /\ Candidates(document_templates, run[w].doc_type) = {})
                => run'[w].template = None /\ run'[w].pc = "llm"
        /\ (run[w].pc = "llm" /\ run'[w].pc \in {"learn", "log"})
                => /\ run'[w].llm_calls = 1
                   /\ HasUsableAmount(run'[w].structured_data) => run'[w].pc = "learn"
        /\ (run[w].pc = "learn" /\ run'[w].pc = "log")
                => /\ Len(document_templates') = Len(document_templates) + 1
                   /\ SubSeq(document_templates', 1, Len(document_templates))
                        = document_templates
                   /\ run'[w].learner_calls = 1
                   /\ document_templates'[Len(document_templates')].document_type
                        = run[w].doc_type
                   /\ document_templates'[Len(document_templates')].usage_count = 1
                   /\ document_templates'[Len(document_templates')].success_count = 1
                   /\ document_templates'[Len(document_templates')].confidence_score = ROne
                   /\ document_templates'[Len(document_templates')].sample_documents
                        = <<run[w].document_id>>
      ]_vars

\* the first template there is, just minted by a run on document 1
Learned ==
    \E w \in Workers :
        /\ run[w].pc = "log"
        /\ run[w].document_id = 1
        /\ run[w].template = None
        /\ run[w].llm_calls = 1
        /\ run[w].created = 1
        /\ Len(document_templates) = 1
        /\ document_templates[1].usage_count = 1
        /\ document_templates[1].confidence_score = ROne
        /\ document_templates[1].sample_documents = <<1>>

\* C6: a run on a text that has the layout signature of a learned template of
\* the document's type and contains all its keywords selects a template,
\* extracts the amount with it and records the method "template"; the
\* template has then been used at least twice, every time with success, and
\* its confidence_score is 1.0.
ReuseScenario ==
    \A w \in Workers :
        (/\ AfterMatch(w)
         /\ \E t \in DOMAIN run[w].scores :
                /\ _match_keywords(run[w].extracted_text, document_templates[t].keywords)
                        = ROne
                /\ _generate_layout_signature(run[w].extracted_text)
                        = document_templates[t].layout_signature)
            => /\ run[w].template # None
               /\ run[w].extraction_method = "template"
               /\ HasUsableAmount(run[w].structured_data)
               /\ document_templates[run[w].template].usage_count >= 2
               /\ document_templates[run[w].template].success_count
                    = document_templates[run[w].template].usage_count
               /\ document_templates[run[w].template].confidence_score = ROne

\* C7: a run that accepted a template's result (method "template") has not
\* called the LLM extractor nor the learner and has created no template; it
\* has called update_template_stats once, and that call, with success true,
\* added one to usage_count and to success_count of the template, which the
\* run does not touch again.
ShortCircuit ==
    /\ [](\A w \in Workers :
            run[w].extraction_method = "template" =>
                /\ run[w].llm_calls = 0
                /\ run[w].learner_calls = 0
                /\ run[w].created = None
                /\ run[w].stats_calls = 1)
    /\ [][\A w \in Workers :
            /\ (run[w].pc = "match" /\ run'[w].extraction_method = "template")
                    => document_templates' =
                        [document_templates EXCEPT
                            ![run'[w].template_id].usage_count = @ + 1,
                            ![run'[w].template_id].success_count = @ + 1,
                            ![run'[w].template_id].confidence_score =
                                Rat(document_templates[run'[w].template_id].success_count + 1,
                                    document_templates[run'[w].template_id].usage_count + 1)]
            /\ (/\ run[w].extraction_method = "template"
                /\ run[w].pc # "done"
                /\ run'[w] # run[w])
                    => document_templates' = document_templates
         ]_vars

\* a run has returned True with the result of the minted template, which has
\* now been used twice
TemplateAccepted ==
    \E w \in Workers :
        /\ run[w].pc = "done"
        /\ run[w].ret = "true"
        /\ run[w].extraction_method = "template"
        /\ run[w].template_id = 1
        /\ run[w].llm_calls = 0
        /\ document_templates[1].usage_count = 2
        /\ document_templates[1].success_count = 2

LearnerOnlyAfterLLM ==
    /\ [](\A w \in Workers :
            /\ run[w].learner_calls <= 1
            /\ run[w].learner_calls = 1 =>
                    run[w].llm_calls = 1 /\ run[w].extraction_method = "llm")
    /\ [][/\ \A w \in Workers :
                /\ run'[w].learner_calls > run[w].learner_calls
                        => /\ run[w].pc = "learn"
                           /\ run[w].llm_calls = 1
                           /\ HasUsableAmount(run[w].structured_data)
                /\ (/\ run[w].pc = "llm"
                    /\ run'[w].pc \in {"learn", "log"}
                    /\ ~HasUsableAmount(run'[w].structured_data))
                        => run'[w].pc = "log"
          /\ Len(document_templates') # Len(document_templates)
                => /\ Len(document_templates') = Len(document_templates) + 1
                   /\ \E w \in Workers : run[w].pc = "learn" /\ run'[w].pc = "log"
         ]_vars

\* one run has minted a template; another, whose LLM result has the amount
\* 0, has reached the log without the learner
LearnerSkipped ==
    \E w, v \in Workers :
        /\ run[w].learner_calls = 1
        /\ run[w].created # None
        /\ run[v].pc = "log"
        /\ run[v].llm_calls = 1
        /\ run[v].learner_calls = 0
        /\ DictGet(run[v].structured_data, "amount") = IntVal(0)

\* C10: a run whose result has no usable amount, and which no exception
\* ends, goes from the LLM extractor to the log and on; its last step marks
\* the document completed, stores the result as extracted_data, adds no
\* transaction, and the run returns True.
CompletedWithoutAmount ==
    [][\A w \in Workers :
        /\ (/\ run[w].pc \in {"llm", "log"}
            /\ run'[w].pc \notin {run[w].pc, "except"}
            /\ ~HasUsableAmount(run'[w].structured_data))
                => run'[w].pc = (IF run[w].pc = "llm" THEN "log" ELSE "finish")
        /\ (/\ run[w].pc = "finish"
            /\ run'[w].pc = "done"
            /\ ~HasUsableAmount(run[w].structured_data))
                => /\ run'[w].ret = "true"
                   /\ documents'[run[w].document_id].processing_status = "completed"
                   /\ documents'[run[w].document_id].has_extracted_data
                   /\ documents'[run[w].document_id].extracted_data
                        = run[w].structured_data
                   /\ transactions' = transactions
      ]_vars

\* a run has returned True on document 1, now completed as an invoice or a
\* receipt with a result that holds no amount
CompletedEmpty ==
    \E w \in Workers :
        /\ run[w].pc = "done"
        /\ run[w].ret = "true"
        /\ run[w].document_id = 1
        /\ run[w].llm_calls = 1
        /\ documents[1].processing_status = "completed"
        /\ documents[1].document_type # "other"
        /\ documents[1].has_extracted_data
        /\ DictGet(documents[1].extracted_data, "amount") = NoneVal
        /\ transactions = <<>>

\* C11: a run never reaches the matcher, the extractor, the LLM extractor or
\* the learner with the type 'other'; the step in which the classifier
\* answers 'other' (the only return of True before line 108) marks the
\* document completed as 'other' and returns, with no template, extraction
\* log, transaction or party created or changed and none of the services
\* called.
OtherSkipsExtraction ==
    /\ [](\A w \in Workers :
            run[w].pc \in {"match", "llm", "learn", "log", "finish"}
                => run[w].doc_type \in DocumentTypes \ {"other"})
    /\ [][\A w \in Workers :
            (run[w].pc = "classify" /\ run'[w].pc = "done" /\ run'[w].ret = "true")
                => /\ documents'[run[w].document_id].document_type = "other"
                   /\ documents'[run[w].document_id].processing_status = "completed"
                   /\ documents'[run[w].document_id].has_extracted_data
                        = documents[run[w].document_id].has_extracted_data
                   /\ document_templates' = document_templates
                   /\ extraction_logs' = extraction_logs
                   /\ transactions' = transactions
                   /\ parties' = parties
                   /\ run'[w].llm_calls = 0
                   /\ run'[w].learner_calls = 0
                   /\ run'[w].stats_calls = 0
                   /\ run'[w].created = None
                   /\ run'[w].template_id = None
         ]_vars

\* document 2 has been completed as 'other' and the run has returned True;
\* the template, the log and the transaction of document 1 are all there is
OtherSkipped ==
    \E w \in Workers :
        /\ run[w].pc = "done"
        /\ run[w].ret = "true"
        /\ run[w].document_id = 2
        /\ run[w].llm_calls = 0
        /\ documents[2].document_type = "other"
        /\ documents[2].processing_status = "completed"
        /\ ~documents[2].has_extracted_data
        /\ Len(document_templates) = 1
        /\ Len(extraction_logs) = 1
        /\ extraction_logs[1].document_id = 1
        /\ Len(transactions) = 1

\* the rows a query for the type requested by worker w's call may return:
\* in the table, active and of that type, whatever their statistics
Eligible(w) ==
    {i \in DOMAIN document_templates :
        /\ document_templates[i].present
        /\ document_templates[i].is_active
        /\ document_templates[i].document_type = run'[w].doc_type}

\* C12: a call of find_matching_template returns None or a row that is in
\* the table, active and of the requested type; and whenever such a row
\* scores above the threshold, used before or not, the call returns one of
\* these rows with the highest score among them.
OnlyActiveOfType ==
    [][\A w \in Workers :
        (run'[w].pc = "matched" /\ run'[w] # run[w])
            => /\ run'[w].template # None => run'[w].template \in Eligible(w)
               /\ (\E i \in Eligible(w) : RLess(Rat(6, 10), run'[w].scores[i]))
                    => /\ run'[w].template \in Eligible(w)
                       /\ \A i \in Eligible(w) :
                            ~RLess(run'[w].scores[run'[w].template], run'[w].scores[i])
      ]_vars

\* the call has returned a row never used, of confidence 0, and passed over
\* an inactive row of the same type that scored as high and rates higher
UnusedTemplateReturned ==
    \E w \in Workers :
        /\ run[w].pc = "matched"
        /\ run[w].template # None
        /\ document_templates[run[w].template].usage_count = 0
        /\ document_templates[run[w].template].confidence_score = RZero
        /\ \E j \in DOMAIN run[w].scores :
                /\ ~document_templates[j].is_active
                /\ document_templates[j].document_type = run[w].doc_type
                /\ document_templates[j].confidence_score = ROne
                /\ run[w].scores[j] = run[w].scores[run[w].template]

\* the labels of the probed list that, tried alone, yield a value
YieldingLabels ==
    {i \in DOMAIN probe.patterns :
        _extract_field(probe.text, <<probe.patterns[i]>>, probe.field_type).found}

\* C13: _extract_field returns what the first label of the list that yields
\* a value yields alone, with confidence 0.9 for a float or a date and 0.8
\* for a string, whatever labels follow it in the list; labels before it
\* that do not match, or match a number that does not parse, are passed
\* over; if no label yields a value the result is (None, 0.0).
FirstParseableMatch ==
    probe.op = "_extract_field" =>
        IF YieldingLabels = {}
        THEN /\ ~probe.result.found
             /\ probe.result.value = NoneVal
             /\ probe.result.confidence = RZero
        ELSE /\ probe.result.found
             /\ probe.result = _extract_field(probe.text,
                                    <<probe.patterns[Min(YieldingLabels)]>>,
                                    probe.field_type)
             /\ probe.result = _extract_field(probe.text,
                                    SubSeq(probe.patterns, 1, Min(YieldingLabels)),
                                    probe.field_type)
             /\ probe.result.value # NoneVal
             /\ probe.result.confidence =
                    IF probe.field_type \in {"float", "date"} THEN Rat(9, 10)
                    ELSE Rat(8, 10)

\* with the labels "Total:", "Amount:" on "total: ,\nAmount: 50.00" the
\* first label matches a comma, which is no number, and the second gives
\* 50.0 with confidence 0.9
SecondLabelWins ==
    /\ probe.op = "_extract_field"
    /\ probe.text = FieldTextComma
    /\ probe.patterns = <<LabelTotal, LabelAmount>>
    /\ probe.field_type = "float"
    /\ Search(probe.text, LabelTotal, "float").ok
    /\ probe.result = Found(FloatVal(Rat(50, 1)), Rat(9, 10))

\* what a run whose write failed leaves of the tables: the step in which the
\* commit of the learner (line 238) or of the log (line 374) raises writes
\* nothing, and the handler's step leaves the templates, the logs, the
\* transactions and every other document as they are
FailureContained(w) ==
    /\ (run[w].pc \in {"learn", "log"} /\ run'[w].pc = "except")
            => /\ run'[w].exc = "db"
               /\ documents' = documents
               /\ document_templates' = document_templates
               /\ extraction_logs' = extraction_logs
               /\ transactions' = transactions
    /\ (run[w].pc = "except" /\ run[w].exc = "db" /\ run'[w].pc = "done")
            => /\ \A d \in DOMAIN documents \ {run[w].document_id} :
                        documents'[d] = documents[d]
               /\ document_templates' = document_templates
               /\ extraction_logs' = extraction_logs
               /\ transactions' = transactions

\* the handler has marked the run's document failed, left its extracted_data
\* alone and returned False
MarkedFailed(w) ==
    /\ run'[w].ret = "false"
    /\ documents'[run[w].document_id].processing_status = "failed"
    /\ documents'[run[w].document_id].extracted_data
            = documents[run[w].document_id].extracted_data

StorageFailureRetried ==
    /\ [](\A w \in Workers : run[w].learner_calls <= 1 /\ run[w].llm_calls <= 1)
    /\ [][\A w \in Workers :
            (/\ task.pc = "running"
             /\ task.worker = w
             /\ run[w].pc = "done"
             /\ run[w].learner_calls = 1
             /\ run[w].created = None
             /\ task.retries < max_retries
             /\ task' # task)
                => /\ task'.pc = "retrying"
                   /\ task'.retries = task.retries + 1
         ]_vars

\* worker w's call of process_document on document d returned True, and got
\* its fields from a template
SucceededByTemplate(w, d) ==
    /\ run[w].pc = "done"
    /\ run[w].document_id = d
    /\ run[w].ret = "true"
    /\ run[w].extraction_method = "template"

\* worker w's call on document d came after worker first's call on it
RunsAgain(w, first, d) ==
    /\ w # first
    /\ run[w].document_id = d
    /\ run[w].call > run[first].call

SecondRunFailed ==
    \E d \in DocIds : \E first, w \in Workers :
        /\ SucceededByTemplate(first, d)
        /\ RunsAgain(w, first, d)
        /\ run[w].pc = "done"
        /\ run[w].ret = "false"
        /\ documents[d].processing_status = "failed"
        /\ documents[d].extracted_text = <<>>
        /\ ~documents[d].on_disk

\* the templates that were learned from document d, and its transactions
LearnedFrom(d) ==
    {t \in DOMAIN document_templates : document_templates[t].created_from_document_id = d}
TransactionsOf(d) ==
    {i \in DOMAIN transactions : transactions[i].document_id = d}

\* C17: however often the task of a document is retried from the start, the
\* document never has more than one template learned from it and never more
\* than one transaction.
ReentryAddsNothing ==
    \A d \in DocIds :
        /\ Cardinality(LearnedFrom(d)) <= 1
        /\ Cardinality(TransactionsOf(d)) <= 1

\* a retried task has succeeded and its document has two learned templates
RetryLearnedTwice ==
    /\ task.pc = "returned"
    /\ task.status = "success"
    /\ task.retries = 1
    /\ Cardinality(LearnedFrom(task.document_id)) = 2
    /\ Cardinality(TransactionsOf(task.document_id)) = 1

\* worker w's call of process_document returns with this step
Returns(w) == Running(w) /\ run'[w].pc = "done"

\* C18: a run of process_document appends at most one extraction log; a run
\* that returns True has appended exactly one, unless it stopped at a document
\* of type 'other', and then it has appended none; no step of any run changes
\* or removes a record the log already holds.
OneLogPerExtraction ==
    [][/\ \A i \in DOMAIN extraction_logs :
            i \in DOMAIN extraction_logs' /\ extraction_logs'[i] = extraction_logs[i]
       /\ Len(extraction_logs') <= Len(extraction_logs) + 1
       /\ \A w \in Workers :
            /\ run'[w].logs_added <= 1
            /\ (run'[w].logs_added # run[w].logs_added /\ run'[w].call = run[w].call)
                    => Len(extraction_logs') = Len(extraction_logs) + 1
            /\ (Returns(w) /\ run'[w].ret = "true")
                    => run'[w].logs_added =
                            IF documents'[run[w].document_id].document_type = "other"
                            THEN 0 ELSE 1]_vars

\* every run of process_document that has returned has appended exactly one
\* extraction log
OneLogPerRun ==
    \A w \in Workers : run[w].pc = "done" => run[w].logs_added = 1

\* a run has returned True with its one record appended behind the record of
\* an earlier run, which is still as it was written
SecondLogAppended ==
    \E w \in Workers :
        /\ run[w].pc = "done"
        /\ run[w].ret = "true"
        /\ run[w].logs_added = 1
        /\ run[w].call = 2
        /\ Len(extraction_logs) = 2
        /\ extraction_logs[1].document_id = run[w].document_id
        /\ extraction_logs[2].document_id = run[w].document_id

\* the amount the extractor returned, NoneVal when it returned none
ExtractedAmount == DictGet(probe.result.data, "amount")

\* C19: a template learned from a text and from fields with amount 123.45,
\* the text holding the amount verbatim, is the template the matcher selects
\* for that text, and the extractor reads amount 123.45 from the text with it.
LearnedRoundTrip ==
    (/\ probe.op = "extracted"
     /\ Contains(probe.text, str(DictGet(probe.fields, "amount"))))
    => /\ probe.template = probe.learned
       /\ ExtractedAmount = FloatVal(Rat(12345, 100))

\* the extractor reads 123.45 with the learned template, which the matcher
\* did not select
ReadButNotSelected ==
    /\ probe.op = "extracted"
    /\ probe.template = None
    /\ ExtractedAmount = FloatVal(Rat(12345, 100))

\* the learned template holds no label for the amount and reads none
LearnedNoLabel ==
    /\ probe.op = "extracted"
    /\ ExtractedAmount = NoneVal

\* the newlines of a text
Newlines(text) == Cardinality({i \in 1..Len(text) : text[i] = "\n"})

\* the signature of a text of one empty line
OneEmptyLine ==
    [total_lines |-> 1, avg_line_length |-> RZero,
     has_tables |-> FALSE, has_amounts |-> FALSE, has_dates |-> FALSE]

\* C20: the layout signature is computed for every text; it counts one line
\* more than the text has newlines, so never fewer than one, and for the empty
\* string it is the signature of the record with 1 line, average line length
\* 0 and all three flags false.
LayoutAlwaysComputed ==
    /\ probe.op = "call" => ENABLED LayoutSignature
    /\ probe.op = "_generate_layout_signature" =>
            /\ probe.signature.total_lines = Newlines(probe.text) + 1
            /\ probe.signature.avg_line_length =
                    Rat(Len(probe.text) - Newlines(probe.text), Newlines(probe.text) + 1)
            /\ probe.text = <<>> => probe.signature = OneEmptyLine

\* for the empty string the layout signature is that of the record with 0
\* lines, average line length 0 and all three flags false
EmptyTextNoLines ==
    (probe.op = "_generate_layout_signature" /\ probe.text = <<>>)
    => probe.signature = [OneEmptyLine EXCEPT !.total_lines = 0]

\* the signature of the empty string has been computed
EmptyTextSigned ==
    /\ probe.op = "_generate_layout_signature"
    /\ probe.text = <<>>
    /\ probe.signature.total_lines = 1
    /\ probe.signature # NoSignature

\* C21: the template find_matching_template returns has the highest score of
\* all candidates, and among the candidates of that score it is one the query
\* lists first: no candidate of the same score has a higher stored
\* confidence_score, so a later candidate of equal score has not replaced it.
HighestScoreFirstKept ==
    [][\A w \in Workers :
        (run'[w].pc = "matched" /\ run'[w] # run[w] /\ run'[w].template # None)
            => /\ run'[w].template \in Eligible(w)
               /\ \A i \in Eligible(w) :
                    /\ ~RLess(run'[w].scores[run'[w].template], run'[w].scores[i])
                    /\ run'[w].scores[i] = run'[w].scores[run'[w].template]
                        => ~RLess(document_templates[run'[w].template].confidence_score,
                                  document_templates[i].confidence_score)
      ]_vars

\* two candidates score the same above the threshold; the call has returned
\* the one of confidence 1 and not the one of confidence 0 that follows it
TieKeepsFirst ==
    \E w \in Workers :
        /\ run[w].pc = "matched"
        /\ run[w].template # None
        /\ document_templates[run[w].template].confidence_score = ROne
        /\ \E j \in DOMAIN run[w].scores :
                /\ j # run[w].template
                /\ document_templates[j].present
                /\ document_templates[j].is_active
                /\ document_templates[j].document_type = run[w].doc_type
                /\ document_templates[j].confidence_score = RZero
                /\ run[w].scores[j] = run[w].scores[run[w].template]

\* row t of the table has no template_schema, or one without 'fields'
Malformed(t) == ~document_templates[t].template_schema.has_fields

\* C22: in a run whose matcher returned a template with a malformed schema,
\* the extractor's result is taken for no data: the run goes on to the LLM,
\* its method stays 'llm' and its template_id null, also in the log it
\* writes, it never calls update_template_stats, and the template's row is
\* left as it was.
MalformedFallsBack ==
    [][\A w \in Workers :
        LET t == run'[w].template
        IN  (t # None /\ Malformed(t) /\ run'[w] # run[w])
                => /\ run'[w].extraction_method = "llm"
                   /\ run'[w].template_id = None
                   /\ run'[w].stats_calls = 0
                   /\ run[w].pc = "match" => run'[w].pc = "llm"
                   /\ document_templates'[t] = document_templates[t]
                   /\ Len(extraction_logs') > Len(extraction_logs)
                        => /\ extraction_logs'[Len(extraction_logs')].extraction_method = "llm"
                           /\ extraction_logs'[Len(extraction_logs')].template_id = None
      ]_vars

\* a run that matched the malformed template has called the LLM and written
\* its log
MalformedLogged ==
    \E w \in Workers :
        /\ run[w].pc = "finish"
        /\ run[w].template # None
        /\ Malformed(run[w].template)
        /\ run[w].llm_calls = 1
        /\ run[w].logs_added = 1
        /\ extraction_logs[Len(extraction_logs)].extraction_method = "llm"

\* the rows of the table that bear the same name
SameName(i, j) ==
    /\ i # j
    /\ document_templates[i].name = document_templates[j].name

\* C23: a call of the learner names its template by the count of templates
\* of the type it read, plus one, whatever has been committed since; so of
\* two calls for the same type that have both counted before either commits,
\* the second to commit gives its template the name the first has given.
NamingRaces ==
    [][\A w \in Workers :
        (session[w].pc = "counted" /\ session'[w].pc = "idle")
            => LET row == document_templates'[Len(document_templates')]
               IN  /\ Len(document_templates') = Len(document_templates) + 1
                   /\ row.name = [type |-> session[w].document_type,
                                  number |-> session[w].count + 1]
                   /\ \A i \in DOMAIN document_templates :
                        (/\ document_templates[i].document_type = row.document_type
                         /\ document_templates[i].name.number = session[w].count + 1)
                            => document_templates'[i].name = row.name
      ]_vars

\* two templates of one type bear one name
TwoOfOneName ==
    \E i, j \in DOMAIN document_templates :
        /\ SameName(i, j)
        /\ document_templates[i].document_type = document_templates[j].document_type
        /\ document_templates[i].present /\ document_templates[j].present

\* rows i and j of the table are two active templates of one type and one
\* layout signature
Duplicates(i, j) ==
    /\ i # j
    /\ document_templates[i].present /\ document_templates[j].present
    /\ document_templates[i].is_active /\ document_templates[j].is_active
    /\ document_templates[i].document_type = document_templates[j].document_type
    /\ document_templates[i].layout_signature = document_templates[j].layout_signature

\* C24: a run whose LLM result has an amount mints a template of its own,
\* whatever the table holds: the learner's step adds one active row with the
\* run's document type and the layout signature of its text, also when a row
\* of that type and signature is there already, and leaves the others alone.
NotDeduplicated ==
    [][\A w \in Workers :
        (run[w].pc = "learn" /\ run'[w].pc \in {"log", "finish"})
            => LET row == document_templates'[Len(document_templates')]
               IN  /\ Len(document_templates') = Len(document_templates) + 1
                   /\ row.id = run'[w].created
                   /\ row.is_active /\ row.present
                   /\ row.document_type = run[w].doc_type
                   /\ row.layout_signature = _generate_layout_signature(run[w].extracted_text)
                   /\ \A i \in DOMAIN document_templates :
                        document_templates'[i] = document_templates[i]
      ]_vars

\* two workers, each in a run on a document of its own, have minted two
\* active templates of one type and one layout signature
TwoAlike ==
    \E w, o \in Workers :
        /\ w # o
        /\ run[w].pc = "log" /\ run[o].pc = "log"
        /\ run[w].document_id # run[o].document_id
        /\ run[w].created # None /\ run[o].created # None
        /\ Duplicates(run[w].created, run[o].created)

\* worker w's run has a template from the matcher whose result it did not
\* accept
SelectedNotAccepted(w) ==
    /\ run[w].template # None
    /\ run[w].extraction_method = "llm"
    /\ run[w].pc \in {"llm", "learn", "log", "finish", "except"}

\* C25: a run that does not accept the result of the template the matcher
\* selected leaves that template's row as it is, in the matching step and in
\* every later step, and never calls update_template_stats; whatever step is
\* taken, a template's success_count rises with its usage_count (no call
\* with success false) and its confidence_score does not go down.
NoFailureRecorded ==
    [][/\ \A w \in Workers :
            /\ (run[w].pc = "match" /\ SelectedNotAccepted(w)')
                    => /\ document_templates' = document_templates
                       /\ run'[w].stats_calls = 0
            /\ (SelectedNotAccepted(w) /\ run'[w] # run[w])
                    => /\ document_templates'[run[w].template] =
                                document_templates[run[w].template]
                       /\ run'[w].stats_calls = 0
       /\ \A t \in DOMAIN document_templates :
            /\ document_templates'[t].usage_count - document_templates[t].usage_count
                    = document_templates'[t].success_count - document_templates[t].success_count
            /\ ~RLess(document_templates'[t].confidence_score,
                      document_templates[t].confidence_score)
      ]_vars

\* a run that did not accept the selected template is about to write its
\* log; the template's statistics are those it was minted with
FailureUnrecorded ==
    \E w \in Workers :
        /\ SelectedNotAccepted(w)
        /\ run[w].pc = "log"
        /\ run[w].stats_calls = 0
        /\ document_templates[run[w].template].usage_count = 1
        /\ document_templates[run[w].template].success_count = 1
        /\ document_templates[run[w].template].confidence_score = ROne

\* two versions of a template's row differ in the statistics at most
SameButStats(a, b) ==
    [a EXCEPT !.usage_count = b.usage_count, !.success_count = b.success_count,
              !.confidence_score = b.confidence_score] = b

\* C26: the step of a run in which the matcher and the extractor are called
\* writes no log and creates or removes no template, and changes no row but,
\* when the result is accepted, the statistics of the accepted template;
\* in any step, a row is changed in its statistics only and by a run's call
\* of update_template_stats, a row is added only by a run's learner, and no
\* row is removed.
MatchingReadOnly ==
    [][/\ \A w \in Workers :
            (run[w].pc = "match" /\ run'[w] # run[w])
                => /\ extraction_logs' = extraction_logs
                   /\ DOMAIN document_templates' = DOMAIN document_templates
                   /\ \A t \in DOMAIN document_templates :
                        \/ document_templates'[t] = document_templates[t]
                        \/ /\ run'[w].extraction_method = "template"
                           /\ run'[w].template_id = t
       /\ \A t \in DOMAIN document_templates :
            /\ t \in DOMAIN document_templates'
            /\ SameButStats(document_templates'[t], document_templates[t])
            /\ document_templates'[t] # document_templates[t]
                => \E w \in Workers :
                    /\ run[w].pc = "match"
                    /\ run'[w].stats_calls = run[w].stats_calls + 1
       /\ Len(document_templates') # Len(document_templates)
            => /\ Len(document_templates') = Len(document_templates) + 1
               /\ \E w \in Workers :
                    /\ run[w].pc = "learn"
                    /\ run'[w].learner_calls = run[w].learner_calls + 1
      ]_vars

\* a run has accepted the template's result; the one row of the table is
\* active, with the schema and the keywords it had, and has been used twice
MatchedRowIntact ==
    \E w \in Workers :
        /\ run[w].pc = "log"
        /\ run[w].extraction_method = "template"
        /\ run[w].stats_calls = 1
        /\ Len(document_templates) = 1
        /\ document_templates[1].is_active
        /\ document_templates[1].template_schema.has_fields
        /\ document_templates[1].sample_documents = <<MissingDoc>>
        /\ document_templates[1].usage_count = 2
        /\ extraction_logs = <<>>

\* C27: with the scorer as it is, no score the matcher computes for a
\* candidate is above 0.4; the matcher returns no template to any run, and
\* every run keeps the method 'llm' and never calls update_template_stats.
ScorerNeverSelects ==
    \A w \in Workers :
        /\ \A i \in DOMAIN run[w].scores : ~RLess(Rat(4, 10), run[w].scores[i])
        /\ run[w].template = None
        /\ run[w].template_id = None
        /\ run[w].extraction_method = "llm"
        /\ run[w].stats_calls = 0
        /\ run[w].pc \in {"learn", "log", "finish"} => run[w].llm_calls = 1

\* the matcher has scored a template learned from a text of the same layout
\* and the same keywords at 0.35 and returned none; the run has gone on to
\* the LLM and is about to write its log
BestScoreTooLow ==
    \E w \in Workers :
        /\ run[w].pc = "log"
        /\ run[w].llm_calls = 1
        /\ run[w].template = None
        /\ \E i \in DOMAIN run[w].scores : run[w].scores[i] = Rat(35, 100)

\* C28: a call of process_document on a document of the table sets it to
\* PROCESSING when it begins; when the call returns, the document is
\* COMPLETED if it returns True and FAILED if it returns False, so it is
\* COMPLETED or FAILED and not PENDING or PROCESSING, whatever branch the
\* call has taken.
StatusAgreesWithReturn ==
    [][\A w \in Workers :
        /\ (~Running(w) /\ Running(w)')
                => documents'[run'[w].document_id].processing_status = "processing"
        /\ (Returns(w) /\ run'[w].ret \in {"true", "false"})
                => /\ run'[w].ret = "true"
                        <=> documents'[run[w].document_id].processing_status = "completed"
                   /\ run'[w].ret = "false"
                        <=> documents'[run[w].document_id].processing_status = "failed"
      ]_vars

\* one call has returned True for a document now COMPLETED, another False,
\* after the learner's commit failed, for a document now FAILED
BothOutcomes ==
    \E w, o \in Workers :
        /\ run[w].pc = "done" /\ run[o].pc = "done"
        /\ run[w].document_id # run[o].document_id
        /\ run[w].ret = "true"
        /\ documents[run[w].document_id].processing_status = "completed"
        /\ run[o].ret = "false"
        /\ run[o].learner_calls = 1 /\ run[o].created = None
        /\ documents[run[o].document_id].processing_status = "failed"

\* C29: every extraction log has the method 'template' exactly if it names a
\* template; the log a run writes names the template whose result the run
\* accepted, and a run that did not accept the template the matcher returned
\* writes a log of method 'llm' that names none.
LogMethodMatchesTemplate ==
    /\ [](\A i \in DOMAIN extraction_logs :
            /\ extraction_logs[i].extraction_method \in {"template", "llm"}
            /\ extraction_logs[i].extraction_method = "template"
                    <=> extraction_logs[i].template_id # None)
    /\ [][\A w \in Workers :
            (run[w].pc = "log" /\ run'[w].pc = "finish")
                => LET log == extraction_logs'[Len(extraction_logs')]
                   IN  /\ log.document_id = run[w].document_id
                       /\ log.extraction_method = run[w].extraction_method
                       /\ log.extraction_method = "template"
                            => /\ log.template_id = run[w].template
                               /\ log.fields_extracted =
                                    extract_with_template(run[w].extracted_text,
                                        document_templates[run[w].template]).data
                       /\ (run[w].template # None /\ run[w].llm_calls = 1)
                            => /\ log.extraction_method = "llm"
                               /\ log.template_id = None
         ]_vars

\* the log holds a record of method 'llm' and no template, written by a run
\* that had matched the template without schema, and a record of method
\* 'template' that names the template learned since
BothMethodsLogged ==
    /\ Len(extraction_logs) = 2
    /\ Malformed(1)
    /\ extraction_logs[1].extraction_method = "llm"
    /\ extraction_logs[1].template_id = None
    /\ extraction_logs[2].extraction_method = "template"
    /\ extraction_logs[2].template_id = 2

\* C30: a run of process_document adds a Transaction for its document if and
\* only if its final structured data has a truthy amount, and then exactly
\* one; a run that ends with the document failed, a run classified 'other'
\* and a run with no amount add none.  The first part is stated for the runs
\* in which no request to the LLM and no write to the store has failed.
\* Transactions are added in no step but the one in which a run returns.
TransactionIffAmount ==
    [][/\ transactions' # transactions => \E w \in Workers : Returns(w)
       /\ \A w \in Workers :
            Returns(w)
                => LET d == run[w].document_id
                       added == Len(transactions') - Len(transactions)
                   IN  /\ SubSeq(transactions', 1, Len(transactions)) = transactions
                       /\ run[w].exc \notin {"app", "db"}
                            => IF Truthy(DictGet(run[w].structured_data, "amount"))
                               THEN /\ added = 1
                                    /\ transactions'[Len(transactions')].document_id = d
                               ELSE added = 0
                       /\ run'[w].ret = "false" => added = 0
                       /\ run[w].doc_type = "other" => added = 0
      ]_vars

====
